---- MODULE Spec2Model ----
(***************************************************************************)
(* Smooth Brain: the Ollama lifecycle manager (ensure_ollama and its       *)
(* background variant), the prompt pipeline (pack, _refine_prompts,        *)
(* refine_single_prompt) and the story templates, modelled from            *)
(* src/ollama.py, src/story_templates.py and src/prompt_guides.py.         *)
(*                                                                         *)
(* Text is modelled as a sequence of tokens (strings); a model name such   *)
(* as qwen2.5:3b is the token sequence <<"qwen2.5", ":", "3b">>.           *)
(***************************************************************************)
EXTENDS Integers, Sequences, FiniteSets, TLC

\* ------------------------------------------------------------------ bounds
\* Threads that call ensure_ollama / ensure_ollama_background themselves.
NumCallers == 1
\* Background "ollama-setup" threads that can be started in one behaviour.
MaxWorkers == 2

Callers == 1..NumCallers
Workers == (NumCallers + 1)..(NumCallers + MaxWorkers)
Threads == Callers \cup Workers

None == <<"None">>

\* ------------------------------------------------------- text helper
\* str.startswith on token sequences.
StartsWith(s, p) == Len(p) <= Len(s) /\ SubSeq(s, 1, Len(p)) = p

\* ------------------------------------------------ model detection
DEFAULT_MODEL == <<"qwen2.5", ":", "3b">>

PREFERRED_MODELS ==
  << <<"qwen2.5", ":", "3b">>, <<"qwen2.5", ":", "7b">>,
     <<"qwen2.5", ":", "1.5b">>, <<"qwen2.5", ":", "14b">>,
     <<"llama3.2", ":", "3b">>, <<"llama3.2", ":", "1b">>,
     <<"llama3.1", ":", "8b">>,
     <<"gemma2", ":", "2b">>, <<"gemma2", ":", "9b">>, <<"gemma3", ":", "4b">>,
     <<"phi3", ":", "3.8b">>, <<"mistral", ":", "7b">> >>

\* pref.split(":")[0]
RECURSIVE BaseOf(_)
BaseOf(name) ==
  IF name = <<>> \/ Head(name) = ":" THEN <<>>
  ELSE <<Head(name)>> \o BaseOf(Tail(name))

\* m == pref or m == f"{pref}:latest"
MatchesByName(m, pref) ==
  \/ m = pref
  \/ m = pref \o <<":", "latest">>

\* m == pref or m == f"{pref}:latest" or m.startswith(base)
Matches(m, pref) ==
  \/ m = pref
  \/ m = pref \o <<":", "latest">>
  \/ StartsWith(m, BaseOf(pref))

\* next((m for m in models if ...), None)
RECURSIVE FirstMatch(_, _)
FirstMatch(models, pref) ==
  IF models = <<>> THEN None
  ELSE IF Matches(Head(models), pref) THEN Head(models)
  ELSE FirstMatch(Tail(models), pref)

RECURSIVE DetectIn(_, _)
DetectIn(models, prefs) ==
  IF prefs = <<>> THEN None
  ELSE IF FirstMatch(models, Head(prefs)) # None
       THEN FirstMatch(models, Head(prefs))
  ELSE DetectIn(models, Tail(prefs))

\* detect_model on a reachable service listing `models`.
DetectModel(models) ==
  IF models = <<>> THEN None ELSE DetectIn(models, PREFERRED_MODELS)

\* ------------------------------------------------------------------ state
VARIABLES
  setup_status,      \* _setup_status
  setup_lock,        \* _setup_lock: 0 when free, else the holding thread
  setup_done,        \* _setup_done (threading.Event)
  cached_model,      \* _cached_model
  platform,          \* sys.platform: "win32" or "linux"
  pc,                \* each thread's position
  ret,               \* the record an ensure_ollama invocation is returning
  calledDuringPull,  \* history: the invocation began while another was pulling
  probe_ok,          \* history: the invocation's latest liveness probe answered
  model_ok           \* history: detect_model gave a model, or the pull succeeded

lifecycleVars ==
  <<setup_status, setup_lock, setup_done, cached_model, platform,
    pc, ret, calledDuringPull, probe_ok, model_ok>>

\* pack (arguments, locals, history)
VARIABLES
  shot_count, concept, genre_weights, image_model, video_model,  \* arguments
  pk_pc,        \* where pack is
  pk_online,    \* what is_online() answered
  pk_requests,  \* POSTs to /api/generate so far
  pk_model,     \* model_name: the model the requests name
  pk_gen,       \* what the storyboard request amounted to
  pk_ref,       \* what the refinement request amounted to
  pk_refined,   \* what _refine_prompts returned
  pk_template,  \* the genre of the template the offline path took
  pk_result,    \* the list pack returned
  pk_raised     \* pack raised instead of returning

packVars ==
  <<shot_count, concept, genre_weights, image_model, video_model, pk_pc,
    pk_online, pk_requests, pk_model, pk_gen, pk_ref, pk_refined,
    pk_template, pk_result, pk_raised>>

\* refine_single_prompt (arguments, locals, history)
VARIABLES
  raw_prompt, model_id,  \* arguments
  rs_pc,        \* where refine_single_prompt is
  rs_online,    \* what is_online() answered
  rs_calls,     \* HTTP requests this call has made
  rs_reply,     \* what _generate gave
  rs_result,    \* the text returned
  rs_raised,    \* the call raised instead of returning
  rs_round      \* how many times the caller has made this call

singleVars ==
  <<raw_prompt, model_id, rs_pc, rs_online, rs_calls, rs_reply, rs_result,
    rs_raised, rs_round>>

\* detect_model (the service's answer, the result)
VARIABLES
  dm_models,    \* the installed model names GET /api/tags lists
  dm_response,  \* how the request ended
  dm_result,    \* what detect_model returned
  dm_pc         \* where detect_model is

detectVars == <<dm_models, dm_response, dm_result, dm_pc>>

\* save_project and load_project on one project directory
VARIABLES
  files,           \* the directory's files: name -> content
  clock,           \* what time.time() answers next
  sb_state,        \* save_project: the state passed in
  sv_project_dir,  \* save_project: project_dir after the defaults
  sv_data,         \* save_project: data
  sv_pc,           \* where save_project is
  sv_outcome,      \* how the last save_project call ended
  sv_before,       \* project.json when save_project was called
  sv_cleanup,      \* what the except branch did with the temp file
  ld_pc,           \* where load_project is
  ld_result,       \* what load_project returned
  ld_candidates    \* project.json at the call and every content renamed
                   \* into place while load_project ran

storeVars ==
  <<files, clock, sb_state, sv_project_dir, sv_data, sv_pc, sv_outcome,
    sv_before, sv_cleanup, ld_pc, ld_result, ld_candidates>>

\* create_project_dir on one base directory
VARIABLES
  existing,     \* the paths that exist under the base directory
  cp_concept,   \* the concept of the last call
  cp_existed,   \* the paths that existed when the last call began
  cp_returned,  \* the directories returned so far, in call order
  cp_raised,    \* whether the last call raised
  cp_calls      \* the calls made so far

createVars ==
  <<existing, cp_concept, cp_existed, cp_returned, cp_raised, cp_calls>>

\* copy_to_project into one project subfolder
VARIABLES
  ctp_files,  \* the subfolder's files: name -> content (0: no such file)
  ctp_now,    \* the last reading of int(time.time())
  ctp_log,    \* the copies made so far: destination and content, in call order
  ctp_ret,    \* what the last call returned
  ctp_calls   \* the calls made so far

copyVars == <<ctp_files, ctp_now, ctp_log, ctp_ret, ctp_calls>>

\* duration_to_frames
VARIABLES
  df_quarters,  \* seconds, in quarters of a second
  df_fps,       \* fps
  df_is_ltx,    \* is_ltx
  df_result,    \* what duration_to_frames returned
  df_pc         \* where duration_to_frames is

framesVars == <<df_quarters, df_fps, df_is_ltx, df_result, df_pc>>

\* the wizard's shots: the session state, project.json and the render batches
VARIABLES
  session,       \* the shots of the gr.State value sb_state
  project_json,  \* the shots project.json records
  buttons,       \* per shot: whether its approve and reject buttons show
  next_btn,      \* whether sb_step3_next is interactive
  auto_mode,     \* the value of the Approval Mode radio
  b_pc,          \* per listener: where its render batch is
  b_shots,       \* per listener: the batch's own shots
  b_todo,        \* per listener: to_render, the part still ahead
  b_auto         \* per listener: is_auto

wizardVars ==
  <<session, project_json, buttons, next_btn, auto_mode, b_pc, b_shots,
    b_todo, b_auto>>

\* get_guide and format_guide_for_system_prompt
VARIABLES
  gg_id,     \* model_id
  gg_guide,  \* what get_guide returned
  gg_text,   \* what format_guide_for_system_prompt returned
  gg_pc      \* which of the two calls have returned

guideVars == <<gg_id, gg_guide, gg_text, gg_pc>>

\* step 3 of ensure_ollama, with what the service had installed
VARIABLES
  hm_models,    \* the names GET /api/tags lists
  hm_response,  \* how the request of _has_any_model went
  hm_status,    \* _setup_status as this step sets it
  hm_pulls,     \* calls of _pull_model
  hm_pc         \* where the step is

pullVars == <<hm_models, hm_response, hm_status, hm_pulls, hm_pc>>

\* a shot operation applied to a state it is handed
VARIABLES
  op_shots,  \* sb_state["shots"]: as handed in, then as the operation left it
  op_name,   \* the operation applied
  op_shot,   \* the shot it was applied to
  op_pc      \* "start" before the operation, "done" after it

opVars == <<op_shots, op_name, op_shot, op_pc>>

\* build_video_params
VARIABLES
  bv_shot,      \* shot: video_prompt, beat, seed, ref_image_path
  bv_model,     \* model_id
  bv_quarters,  \* shot_duration, in quarters of a second
  bv_vibe,      \* vibe
  bv_defaults,  \* defaults
  bv_exists,    \* os.path.exists(shot.ref_image_path) at the call
  bv_params,    \* the dict returned
  bv_pc         \* where build_video_params is

paramsVars ==
  <<bv_shot, bv_model, bv_quarters, bv_vibe, bv_defaults, bv_exists,
    bv_params, bv_pc>>

vars ==
  <<lifecycleVars, packVars, singleVars, detectVars, storeVars, createVars,
    copyVars, framesVars, wizardVars, guideVars, pullVars, opVars,
    paramsVars>>

\* Everything outside one component.
notLifecycleVars ==
  <<packVars, singleVars, detectVars, storeVars, createVars, copyVars,
    framesVars, wizardVars, guideVars, pullVars, opVars, paramsVars>>
notPackVars ==
  <<singleVars, detectVars, storeVars, createVars, copyVars, framesVars,
    wizardVars, guideVars, pullVars, opVars, paramsVars>>
notSingleVars ==
  <<packVars, detectVars, storeVars, createVars, copyVars, framesVars,
    wizardVars, guideVars, pullVars, opVars, paramsVars>>
notDetectVars ==
  <<lifecycleVars, packVars, singleVars, storeVars, createVars, copyVars,
    framesVars, wizardVars, guideVars, pullVars, opVars, paramsVars>>
notStoreVars ==
  <<lifecycleVars, packVars, singleVars, detectVars, createVars, copyVars,
    framesVars, wizardVars, guideVars, pullVars, opVars, paramsVars>>
notCreateVars ==
  <<lifecycleVars, packVars, singleVars, detectVars, storeVars, copyVars,
    framesVars, wizardVars, guideVars, pullVars, opVars, paramsVars>>
notCopyVars ==
  <<lifecycleVars, packVars, singleVars, detectVars, storeVars, createVars,
    framesVars, wizardVars, guideVars, pullVars, opVars, paramsVars>>
notFramesVars ==
  <<lifecycleVars, packVars, singleVars, detectVars, storeVars, createVars,
    copyVars, wizardVars, guideVars, pullVars, opVars, paramsVars>>
notWizardVars ==
  <<lifecycleVars, packVars, singleVars, detectVars, storeVars, createVars,
    copyVars, framesVars, guideVars, pullVars, opVars, paramsVars>>
notGuideVars ==
  <<lifecycleVars, packVars, singleVars, detectVars, storeVars, createVars,
    copyVars, framesVars, wizardVars, pullVars, opVars, paramsVars>>
notPullVars ==
  <<lifecycleVars, packVars, singleVars, detectVars, storeVars, createVars,
    copyVars, framesVars, wizardVars, guideVars, opVars, paramsVars>>
notOpVars ==
  <<lifecycleVars, packVars, singleVars, detectVars, storeVars, createVars,
    copyVars, framesVars, wizardVars, guideVars, pullVars, paramsVars>>
notParamsVars ==
  <<lifecycleVars, packVars, singleVars, detectVars, storeVars, createVars,
    copyVars, framesVars, wizardVars, guideVars, pullVars, opVars>>

OtherModel == <<"deepseek-r1", ":", "7b">>
LlamaModel == <<"llama3.2", ":", "1b">>

FailedStatuses ==
  {"failed:download", "failed:install", "failed:start", "failed:pull",
   "failed:notfound"}

\* The section of ensure_ollama that runs inside `with _setup_lock`.
CriticalPcs ==
  {"fast_online", "fast_model", "set_checking", "find", "set_downloading",
   "download", "set_installing", "install", "refind", "online2",
   "set_starting", "start", "model2", "set_pulling", "pull", "set_ready",
   "fast_done", "fail_done", "ready_done", "clear_cache", "return"}

NoRet == [online |-> FALSE, model_ready |-> FALSE, status |-> ""]

\* What GET /api/tags can answer with when the service is reachable: the
\* installed model names, in the order the service lists them.
Listings ==
  {<<>>, <<DEFAULT_MODEL>>, <<OtherModel>>, <<OtherModel, LlamaModel>>}

\* _has_any_model(): detect_model() is not None. The request fails (detect_model
\* returns None) or answers with a listing.
HasAnyModel(reachable, listing) == reachable /\ DetectModel(listing) # None

InitLifecycle ==
  /\ setup_status = ""
  /\ setup_lock = 0
  /\ setup_done = FALSE
  /\ cached_model = None
  /\ platform \in {"win32", "linux"}
  /\ pc = [t \in Threads |-> IF t \in Callers THEN "idle" ELSE "unstarted"]
  /\ ret = [t \in Threads |-> NoRet]
  /\ calledDuringPull = [t \in Threads |-> FALSE]
  /\ probe_ok = [t \in Threads |-> FALSE]
  /\ model_ok = [t \in Threads |-> FALSE]

\* ------------------------------------------------ ensure_ollama, step by step
\* The thread ends its ensure_ollama invocation (or the thread itself ends).
Ended(t) == IF t \in Callers THEN "idle" ELSE "dead"

Goto(t, label) == pc' = [pc EXCEPT ![t] = label]

\* _set_status(s)
SetStatus(s) == setup_status' = s

\* A lock that never blocks.
LockFreeNoWait == TRUE

\* `with _setup_lock:` may be entered when no thread holds the lock.
LockFree == setup_lock = 0

\* A caller thread invokes ensure_ollama() and reaches `with _setup_lock`.
CallEnsure(t) ==
  /\ t \in Callers /\ pc[t] = "idle"
  /\ Goto(t, "lock")
  /\ calledDuringPull' =
       [calledDuringPull EXCEPT ![t] = \E u \in Threads \ {t} : pc[u] = "pull"]
  /\ UNCHANGED <<setup_status, setup_lock, setup_done, cached_model, platform, ret,
                 probe_ok, model_ok>>
  /\ UNCHANGED notLifecycleVars

Acquire(t) ==
  /\ pc[t] = "lock" /\ LockFree
  /\ setup_lock' = t
  /\ Goto(t, "fast_online")
  /\ probe_ok' = [probe_ok EXCEPT ![t] = FALSE]
  /\ model_ok' = [model_ok EXCEPT ![t] = FALSE]
  /\ UNCHANGED <<setup_status, setup_done, cached_model, platform, ret,
                 calledDuringPull>>
  /\ UNCHANGED notLifecycleVars

\* A step of the lock holder that only writes the status.
StatusStep(t, from, s, to) ==
  /\ pc[t] = from
  /\ SetStatus(s)
  /\ Goto(t, to)
  /\ UNCHANGED <<setup_lock, setup_done, cached_model, platform, ret,
                 calledDuringPull, probe_ok, model_ok>>
  /\ UNCHANGED notLifecycleVars

\* _set_status("failed:<reason>") and the record the failure exit returns.
FailStep(t, s, online) ==
  /\ SetStatus(s)
  /\ ret' = [ret EXCEPT ![t] =
               [online |-> online, model_ready |-> FALSE, status |-> s]]
  /\ Goto(t, "fail_done")

\* line 200, first operand: is_online()
FastOnline(t) ==
  /\ pc[t] = "fast_online"
  /\ \E online \in BOOLEAN :
       /\ Goto(t, IF online THEN "fast_model" ELSE "set_checking")
       /\ probe_ok' = [probe_ok EXCEPT ![t] = online]
  /\ UNCHANGED <<setup_status, setup_lock, setup_done, cached_model, platform,
                 ret, calledDuringPull, model_ok>>
  /\ UNCHANGED notLifecycleVars

\* line 200, second operand, and line 201
FastModel(t) ==
  /\ pc[t] = "fast_model"
  /\ \E reachable \in BOOLEAN, listing \in Listings :
       /\ model_ok' = [model_ok EXCEPT ![t] = HasAnyModel(reachable, listing)]
       /\ IF HasAnyModel(reachable, listing)
          THEN /\ SetStatus("ready")
               /\ ret' = [ret EXCEPT ![t] =
                      [online |-> TRUE, model_ready |-> TRUE, status |-> "ready"]]
               /\ Goto(t, "fast_done")
          ELSE /\ Goto(t, "set_checking")
               /\ UNCHANGED <<setup_status, ret>>
  /\ UNCHANGED <<setup_lock, setup_done, cached_model, platform,
                 calledDuringPull, probe_ok>>
  /\ UNCHANGED notLifecycleVars

\* line 206
Checking(t) == StatusStep(t, "set_checking", "checking", "find")

\* lines 207-209: _find_ollama() finds an executable or not
Find(t) ==
  /\ pc[t] = "find"
  /\ \E found \in BOOLEAN :
       Goto(t, IF found THEN "online2" ELSE "set_downloading")
  /\ UNCHANGED <<setup_status, setup_lock, setup_done, cached_model, platform,
                 ret, calledDuringPull, probe_ok, model_ok>>
  /\ UNCHANGED notLifecycleVars

\* lines 210-211 and 222
Downloading(t) ==
  StatusStep(t, "set_downloading", "downloading",
             IF platform = "win32" THEN "download" ELSE "set_installing")

\* lines 212-216 with _download_ollama_windows (91-105): the installer path, None,
\* or an exception of os.makedirs / os.path.getsize, which are outside its try.
Download(t) ==
  /\ pc[t] = "download"
  /\ \E outcome \in {"path", "none", "raise"} :
       \/ /\ outcome = "path"
          /\ Goto(t, "set_installing")
          /\ UNCHANGED <<setup_status, setup_lock, ret, calledDuringPull>>
       \/ /\ outcome = "none"
          /\ FailStep(t, "failed:download", FALSE)
          /\ UNCHANGED <<setup_lock, calledDuringPull>>
       \/ /\ outcome = "raise"
          /\ setup_lock' = 0
          /\ Goto(t, Ended(t))
          /\ calledDuringPull' = [calledDuringPull EXCEPT ![t] = FALSE]
          /\ UNCHANGED <<setup_status, ret>>
  /\ UNCHANGED <<setup_done, cached_model, platform, probe_ok, model_ok>>
  /\ UNCHANGED notLifecycleVars

\* lines 217 and 223
Installing(t) == StatusStep(t, "set_installing", "installing", "install")

\* lines 218-221 / 224-227: the install function returns _find_ollama() is not
\* None after the installer ran, or False when the subprocess raises.
Install(t) ==
  /\ pc[t] = "install"
  /\ \E installed \in BOOLEAN :
       IF installed
       THEN /\ Goto(t, "refind")
            /\ UNCHANGED <<setup_status, ret>>
       ELSE FailStep(t, "failed:install", FALSE)
  /\ UNCHANGED <<setup_lock, setup_done, cached_model, platform,
                 calledDuringPull, probe_ok, model_ok>>
  /\ UNCHANGED notLifecycleVars

\* lines 229-233: _find_ollama() again
Refind(t) ==
  /\ pc[t] = "refind"
  /\ \E found \in BOOLEAN :
       IF found
       THEN /\ Goto(t, "online2")
            /\ UNCHANGED <<setup_status, ret>>
       ELSE FailStep(t, "failed:notfound", FALSE)
  /\ UNCHANGED <<setup_lock, setup_done, cached_model, platform,
                 calledDuringPull, probe_ok, model_ok>>
  /\ UNCHANGED notLifecycleVars

\* line 236: is_online()
Online2(t) ==
  /\ pc[t] = "online2"
  /\ \E online \in BOOLEAN :
       /\ Goto(t, IF online THEN "model2" ELSE "set_starting")
       /\ probe_ok' = [probe_ok EXCEPT ![t] = online]
  /\ UNCHANGED <<setup_status, setup_lock, setup_done, cached_model, platform,
                 ret, calledDuringPull, model_ok>>
  /\ UNCHANGED notLifecycleVars

\* The status of the next step written one step early.
StartingAsPulling(t) == StatusStep(t, "set_starting", "pulling", "start")

\* line 237
Starting(t) == StatusStep(t, "set_starting", "starting", "start")

\* A start whose failure is not looked at.
StartUnchecked(t) ==
  /\ pc[t] = "start"
  /\ \E comesUp \in BOOLEAN :
       /\ probe_ok' = [probe_ok EXCEPT ![t] = comesUp]
       /\ Goto(t, "model2")
       /\ UNCHANGED <<setup_status, ret>>
  /\ UNCHANGED <<setup_lock, setup_done, cached_model, platform,
                 calledDuringPull, model_ok>>
  /\ UNCHANGED notLifecycleVars

\* lines 238-241 with _start_ollama_server (138-164): True when the service
\* answers at once or within the 60 polls after `ollama serve` was spawned.
Start(t) ==
  /\ pc[t] = "start"
  /\ \E comesUp \in BOOLEAN :
       /\ probe_ok' = [probe_ok EXCEPT ![t] = comesUp]
       /\ IF comesUp
          THEN /\ Goto(t, "model2")
               /\ UNCHANGED <<setup_status, ret>>
          ELSE FailStep(t, "failed:start", FALSE)
  /\ UNCHANGED <<setup_lock, setup_done, cached_model, platform,
                 calledDuringPull, model_ok>>
  /\ UNCHANGED notLifecycleVars

\* line 244: _has_any_model()
Model2(t) ==
  /\ pc[t] = "model2"
  /\ \E reachable \in BOOLEAN, listing \in Listings :
       /\ Goto(t, IF HasAnyModel(reachable, listing)
                  THEN "set_ready" ELSE "set_pulling")
       /\ model_ok' = [model_ok EXCEPT ![t] = HasAnyModel(reachable, listing)]
  /\ UNCHANGED <<setup_status, setup_lock, setup_done, cached_model, platform,
                 ret, calledDuringPull, probe_ok>>
  /\ UNCHANGED notLifecycleVars

\* line 245
Pulling(t) == StatusStep(t, "set_pulling", "pulling", "pull")

\* lines 246-249 with _pull_model (167-185): `ollama pull qwen2.5:3b` exits 0,
\* or fails / times out / raises.
Pull(t) ==
  /\ pc[t] = "pull"
  /\ \E ok \in BOOLEAN :
       /\ model_ok' = [model_ok EXCEPT ![t] = ok]
       /\ IF ok
          THEN /\ Goto(t, "set_ready")
               /\ UNCHANGED <<setup_status, ret>>
          ELSE FailStep(t, "failed:pull", TRUE)
  /\ UNCHANGED <<setup_lock, setup_done, cached_model, platform,
                 calledDuringPull, probe_ok>>
  /\ UNCHANGED notLifecycleVars

\* line 251
Ready(t) ==
  /\ pc[t] = "set_ready"
  /\ SetStatus("ready")
  /\ ret' = [ret EXCEPT ![t] =
               [online |-> TRUE, model_ready |-> TRUE, status |-> "ready"]]
  /\ Goto(t, "ready_done")
  /\ UNCHANGED <<setup_lock, setup_done, cached_model, platform,
                 calledDuringPull, probe_ok, model_ok>>
  /\ UNCHANGED notLifecycleVars

\* _setup_done.set() on the three kinds of exit: lines 202, 215/220/226/232/
\* 240/248, and 252.
SetDone(t) ==
  /\ pc[t] \in {"fast_done", "fail_done", "ready_done"}
  /\ setup_done' = TRUE
  /\ Goto(t, IF pc[t] = "ready_done" THEN "clear_cache" ELSE "return")
  /\ UNCHANGED <<setup_status, setup_lock, cached_model, platform, ret,
                 calledDuringPull, probe_ok, model_ok>>
  /\ UNCHANGED notLifecycleVars

\* line 253: clear_model_cache()
ClearCache(t) ==
  /\ pc[t] = "clear_cache"
  /\ cached_model' = None
  /\ Goto(t, "return")
  /\ UNCHANGED <<setup_status, setup_lock, setup_done, platform, ret,
                 calledDuringPull, probe_ok, model_ok>>
  /\ UNCHANGED notLifecycleVars

\* the return statement: the with block releases the lock
Return(t) ==
  /\ pc[t] = "return"
  /\ setup_lock' = 0
  /\ Goto(t, Ended(t))
  /\ ret' = [ret EXCEPT ![t] = NoRet]
  /\ calledDuringPull' = [calledDuringPull EXCEPT ![t] = FALSE]
  /\ probe_ok' = [probe_ok EXCEPT ![t] = FALSE]
  /\ model_ok' = [model_ok EXCEPT ![t] = FALSE]
  /\ UNCHANGED <<setup_status, setup_done, cached_model, platform>>
  /\ UNCHANGED notLifecycleVars

\* ------------------------------------------------ ensure_ollama_background
CallBackground(t) ==
  /\ t \in Callers /\ pc[t] = "idle"
  /\ Goto(t, "bg_ready")
  /\ UNCHANGED <<setup_status, setup_lock, setup_done, cached_model, platform, ret,
                 calledDuringPull, probe_ok, model_ok>>
  /\ UNCHANGED notLifecycleVars

\* line 259: _setup_done.is_set() and _setup_status == "ready"
AlreadyReady == setup_done /\ setup_status = "ready"

\* a status guard that takes every non-empty status for an attempt in progress
InProgressUnlessIdle == setup_status # ""

\* lines 261-262: _setup_status and _setup_status not in ("", "failed:...")
InProgress == setup_status # "" /\ setup_status \notin ({""} \cup FailedStatuses)

\* lines 259-260
BgCheckReady(t) ==
  /\ pc[t] = "bg_ready"
  /\ Goto(t, IF AlreadyReady THEN "idle" ELSE "bg_progress")
  /\ UNCHANGED <<setup_status, setup_lock, setup_done, cached_model, platform, ret,
                 calledDuringPull, probe_ok, model_ok>>
  /\ UNCHANGED notLifecycleVars

\* lines 261-263
BgCheckProgress(t) ==
  /\ pc[t] = "bg_progress"
  /\ Goto(t, IF InProgress THEN "idle" ELSE "bg_start")
  /\ UNCHANGED <<setup_status, setup_lock, setup_done, cached_model, platform, ret,
                 calledDuringPull, probe_ok, model_ok>>
  /\ UNCHANGED notLifecycleVars

\* lines 264-265: the new thread runs ensure_ollama and reaches the lock.
BgStart(t) ==
  /\ pc[t] = "bg_start"
  /\ \E w \in Workers :
       /\ pc[w] = "unstarted"
       /\ \A v \in Workers : v < w => pc[v] # "unstarted"
       /\ pc' = [pc EXCEPT ![t] = "idle", ![w] = "lock"]
       /\ calledDuringPull' =
            [calledDuringPull EXCEPT ![w] = \E u \in Threads : pc[u] = "pull"]
  /\ UNCHANGED <<setup_status, setup_lock, setup_done, cached_model, platform, ret,
                 probe_ok, model_ok>>
  /\ UNCHANGED notLifecycleVars

NextLifecycle ==
  \E t \in Threads :
       \/ CallEnsure(t) \/ Acquire(t) \/ FastOnline(t) \/ FastModel(t)
       \/ Checking(t) \/ Find(t) \/ Downloading(t) \/ Download(t)
       \/ Installing(t) \/ Install(t) \/ Refind(t) \/ Online2(t)
       \/ Starting(t) \/ Start(t) \/ Model2(t) \/ Pulling(t) \/ Pull(t)
       \/ Ready(t) \/ SetDone(t) \/ ClearCache(t) \/ Return(t)
       \/ CallBackground(t) \/ BgCheckReady(t) \/ BgCheckProgress(t)
       \/ BgStart(t)


\* ------------------------------------------------------------ detect_model
MaxInstalled == 2

MistralModel == <<"mistral", ":", "7b">>
CoderModel == <<"qwen2.5", "-coder", ":", "7b">>
GemmaLatest == <<"gemma3", ":", "4b", ":", "latest">>

\* Names the service can list, in any order.
Llama3b == <<"llama3.2", ":", "3b">>
InstalledNames ==
  {LlamaModel, Llama3b, MistralModel, OtherModel, CoderModel, GemmaLatest}
InstalledLists ==
  UNION {[1..k -> InstalledNames] : k \in 0..MaxInstalled}

\* GET /api/tags answers 200 with the listing, answers another status, or the
\* request or the parsing of its body raises.
Responses == {"ok", "status", "raise"}

DetectParked ==
  dm_models = <<>> /\ dm_response = "" /\ dm_result = None /\ dm_pc = "idle"

InitDetect ==
  /\ dm_models \in InstalledLists
  /\ dm_response = "" /\ dm_result = None /\ dm_pc = "start"

\* detect_model()
Detect ==
  /\ dm_pc = "start"
  /\ \E response \in Responses :
       /\ dm_response' = response
       /\ dm_result' = IF response = "ok" THEN DetectModel(dm_models) ELSE None
  /\ dm_pc' = "done"
  /\ UNCHANGED dm_models
  /\ UNCHANGED notDetectVars

NextDetect == Detect

\* =========================================================== prompt guides
NoGuide == "None"

\* MODEL_GUIDES, in the order of the dict literal; a model id is cut into tokens
\* so that one registered key is a prefix of another exactly as in the source.
MODEL_GUIDES ==
  << [key |-> <<"t2v">>, guide |-> "WAN_GUIDE"],
     [key |-> <<"i2v">>, guide |-> "WAN_GUIDE"],
     [key |-> <<"t2v", "_1.3B">>, guide |-> "WAN_GUIDE"],
     [key |-> <<"i2v", "_2_2">>, guide |-> "WAN_GUIDE"],
     [key |-> <<"ti2v_2_2">>, guide |-> "WAN_GUIDE"],
     [key |-> <<"t2v", "_2_2">>, guide |-> "WAN_GUIDE"],
     [key |-> <<"ltx", "2">>, guide |-> "LTX2_GUIDE"],
     [key |-> <<"ltx", "2", "_distilled">>, guide |-> "LTX2_GUIDE"],
     [key |-> <<"ltx", "2", "_19B">>, guide |-> "LTX2_GUIDE"],
     [key |-> <<"ltx", "v_13B">>, guide |-> "LTX2_GUIDE"],
     [key |-> <<"hunyuan", "_1_5_t2v">>, guide |-> "HUNYUAN_GUIDE"],
     [key |-> <<"hunyuan", "_1_5_i2v">>, guide |-> "HUNYUAN_GUIDE"],
     [key |-> <<"hunyuan">>, guide |-> "HUNYUAN_GUIDE"],
     [key |-> <<"hunyuan", "_i2v">>, guide |-> "HUNYUAN_GUIDE"],
     [key |-> <<"flux", "2", "_dev">>, guide |-> "FLUX2_GUIDE"],
     [key |-> <<"flux", "2", "_klein_4b">>, guide |-> "FLUX2_GUIDE"],
     [key |-> <<"flux", "2", "_klein_9b">>, guide |-> "FLUX2_GUIDE"],
     [key |-> <<"flux">>, guide |-> "FLUX1_GUIDE"],
     [key |-> <<"flux", "_schnell">>, guide |-> "FLUX1_GUIDE"],
     [key |-> <<"flux", "_dev_kontext">>, guide |-> "FLUX1_GUIDE"] >>

\* model_id in MODEL_GUIDES
IsKey(id) ==
  \E i \in 1..Len(MODEL_GUIDES) : MODEL_GUIDES[i].key = id

\* MODEL_GUIDES[model_id]
ExactGuide(id) ==
  MODEL_GUIDES[CHOOSE i \in 1..Len(MODEL_GUIDES) :
                 MODEL_GUIDES[i].key = id].guide

\* the prefix fallback taking the last key, in the order of the dict, that is a
\* prefix
PrefixGuideLast(id) ==
  LET hits == {i \in 1..Len(MODEL_GUIDES) :
                 StartsWith(id, MODEL_GUIDES[i].key)}
  IN  IF hits = {} THEN NoGuide
      ELSE MODEL_GUIDES[CHOOSE i \in hits : \A j \in hits : i >= j].guide

\* for key, guide in MODEL_GUIDES.items(): if model_id.startswith(key): return
\* guide -- the first key, in the order of the dict, that is a prefix
PrefixGuide(id) ==
  LET hits == {i \in 1..Len(MODEL_GUIDES) :
                 StartsWith(id, MODEL_GUIDES[i].key)}
  IN  IF hits = {} THEN NoGuide
      ELSE MODEL_GUIDES[CHOOSE i \in hits : \A j \in hits : i <= j].guide

\* get_guide
GetGuide(id) ==
  IF id = <<>> THEN NoGuide
  ELSE IF IsKey(id) THEN ExactGuide(id)
  ELSE PrefixGuide(id)

\* format_guide_for_system_prompt(model_id) is non-empty text
HasGuideText(id) == GetGuide(id) # NoGuide

\* ========================================================= story templates
ALL_GENRES ==
  <<"action", "comedy", "drama", "horror", "scifi", "romance", "fantasy",
    "thriller">>

\* TEMPLATES: every beat's text, cut at the {subject} placeholder (a dash
\* stands for the source's long dash).
TEMPLATES ==
  <<
    [genre |-> "action", beats |-> <<
        <<"Extreme wide shot: ", "{subject}", " stands on the edge of a rooftop at sunset, city sprawling below.">>,
        <<"Low-angle shot: ", "{subject}", " sprints toward camera, buildings blurring behind.">>,
        <<"Close-up: sweat on ", "{subject}", "'s face, jaw clenched with determination.">>,
        <<"Action cam: ", "{subject}", " leaps across a gap between buildings, arms reaching.">>,
        <<"Slow motion: ", "{subject}", " lands hard on gravel, skids to a stop.">>,
        <<"Over-the-shoulder: ", "{subject}", " faces an enemy, tension electric in the air.">>,
        <<"Dutch angle close-up: fists clench as the confrontation begins.">>,
        <<"Wide: an epic fight sequence unfolds in the orange dusk.">>,
        <<"Tracking shot: ", "{subject}", " escapes into the crowd below, disappearing.">>,
        <<"Final wide: the city skyline quiet again, ", "{subject}", " gone.">> >>],
    [genre |-> "comedy", beats |-> <<
        <<"Wide: ", "{subject}", " wakes up to find everything hilariously wrong - chaos at first glance.">>,
        <<"Reaction shot: ", "{subject}", " stares at the mess with growing horror and disbelief.">>,
        <<"Montage: frantic quick cuts of ", "{subject}", " attempting absurd fixes.">>,
        <<"Close-up: a plan forms - a telltale gleam in ", "{subject}", "'s eye.">>,
        <<"Wide: the plan goes spectacularly sideways, doubling the chaos.">>,
        <<"Over-the-shoulder: ", "{subject}", " catches someone else's judging stare.">>,
        <<"Close-up: a sheepish grin as ", "{subject}", " shrugs it all off.">>,
        <<"Wide: unexpected help arrives - making things chaotically better.">>,
        <<"Warm medium shot: laughter fills the room, the mess forgotten.">>,
        <<"Final close-up: ", "{subject}", " raises an eyebrow at the camera - victorious.">> >>],
    [genre |-> "drama", beats |-> <<
        <<"Wide: ", "{subject}", " alone at a window, rain streaking the glass.">>,
        <<"Close-up: a worn photograph in ", "{subject}", "'s hands - a memory.">>,
        <<"Flashback medium: ", "{subject}", " in better days, laughing with someone now gone.">>,
        <<"Return to present: slow zoom on ", "{subject}", "'s face, heavy with loss.">>,
        <<"A knock at the door - ", "{subject}", " hesitates before answering.">>,
        <<"Two-shot: a difficult conversation unfolds, every word measured.">>,
        <<"Close-up cutaways: hands, eyes, the space between two people.">>,
        <<"Wide: ", "{subject}", " makes a choice that cannot be undone.">>,
        <<"Tracking shot: ", "{subject}", " walks away into uncertainty.">>,
        <<"Final: an empty chair, a single light left on.">> >>],
    [genre |-> "horror", beats |-> <<
        <<"Extreme wide: ", "{subject}", " arrives at an isolated location as dusk falls.">>,
        <<"Medium: ", "{subject}", " explores the space - something feels wrong.">>,
        <<"Close-up: ", "{subject}", " finds an unsettling clue. Pause. Heartbeat.">>,
        <<"POV: something moves at the edge of frame - gone when we look.">>,
        <<"Overhead: ", "{subject}", " is being watched. They don't know it yet.">>,
        <<"Jump cut: a sudden sound - ", "{subject}", " spins, nothing there.">>,
        <<"Slow crawl: the camera inches toward a closed door.">>,
        <<"Wide: the door opens - darkness beyond.">>,
        <<"Chaos cut: rapid flashes - screaming, running, confusion.">>,
        <<"Final frame: silence. An ominous detail left for the audience.">> >>],
    [genre |-> "scifi", beats |-> <<
        <<"Establishing wide: a vast alien or futuristic cityscape - ", "{subject}", " is tiny against it.">>,
        <<"Close-up: ", "{subject}", " studies a holographic display, something anomalous.">>,
        <<"Cutaway: the anomaly spreading - a system failing.">>,
        <<"Medium: ", "{subject}", " makes a desperate call to action.">>,
        <<"Tracking: ", "{subject}", " races through gleaming corridors, alarms sounding.">>,
        <<"Wide: a massive machine or spaceship - ", "{subject}", " dwarfed by scale.">>,
        <<"Close-up: ", "{subject}", "'s gloved hands working controls under pressure.">>,
        <<"Reaction: the countdown - three seconds.">>,
        <<"Flash cut: the solution - beauty and destruction at once.">>,
        <<"Final wide: silence returns. Stars. ", "{subject}", " floats, breathing.">> >>],
    [genre |-> "romance", beats |-> <<
        <<"Wide: two strangers in the same crowded space - ", "{subject}", " notices.">>,
        <<"POV: their eyes meet for just a moment, then look away.">>,
        <<"Montage: chance encounters, each a little longer than the last.">>,
        <<"Close-up: ", "{subject}", "'s hand brushes theirs. Stillness.">>,
        <<"Medium: the first real conversation - nervous, genuine.">>,
        <<"Golden hour wide: walking side by side as light fades.">>,
        <<"Close-up: a smile that says everything before words do.">>,
        <<"Wide: a moment of doubt - distance opens between them.">>,
        <<"Close-up: ", "{subject}", " makes a choice - steps forward.">>,
        <<"Final wide: two silhouettes, together against the fading sky.">> >>],
    [genre |-> "fantasy", beats |-> <<
        <<"Epic wide: a mythical landscape - ", "{subject}", " stands at its threshold.">>,
        <<"Close-up: an ancient artifact or mark on ", "{subject}", "'s hand glows.">>,
        <<"Medium: a mysterious guide appears - a warning, a map.">>,
        <<"Montage: the journey - mountains, forests, rivers crossed.">>,
        <<"Close-up: ", "{subject}", " faces their first test - fear and resolve.">>,
        <<"Wide: an impossible creature or wonder fills the frame.">>,
        <<"Slow motion: ", "{subject}", " discovers a hidden power within.">>,
        <<"Wide: the final confrontation - light against shadow.">>,
        <<"Close-up: the decisive moment - sacrifice and triumph.">>,
        <<"Final wide: the world changed forever. ", "{subject}", " changed too.">> >>],
    [genre |-> "thriller", beats |-> <<
        <<"Wide: ", "{subject}", " follows someone through a crowded city - closing in.">>,
        <<"Close-up: a suspicious object discovered - face drains of color.">>,
        <<"Cutaway: a clock. A deadline. The stakes crystallize.">>,
        <<"Rapid cuts: piecing together clues across scattered locations.">>,
        <<"Medium: ", "{subject}", " is confronted - something doesn't add up.">>,
        <<"Close-up: a lie detected in someone's eyes.">>,
        <<"Wide: the trap closes - ", "{subject}", " is deeper than they thought.">>,
        <<"Over-the-shoulder: ", "{subject}", " makes a dangerous call for help.">>,
        <<"Extreme close-up: a hand on a weapon. A choice. A breath.">>,
        <<"Final: silence after impact. The truth revealed at last.">> >>] >>

\* str.strip() on a token sequence: whitespace tokens are " ".
RECURSIVE LStrip(_)
LStrip(text) ==
  IF text # <<>> /\ Head(text) = " " THEN LStrip(Tail(text)) ELSE text

RECURSIVE RStrip(_)
RStrip(text) ==
  IF text # <<>> /\ text[Len(text)] = " "
  THEN RStrip(SubSeq(text, 1, Len(text) - 1)) ELSE text

Strip(text) == RStrip(LStrip(text))

\* x or "the hero"
OrTheHero(text) == IF text = <<>> THEN <<"the hero">> ELSE text

\* b.replace("{subject}", s) that replaces nothing
LeavePlaceholder(b, s) == b

\* b.replace("{subject}", s)
RECURSIVE ReplaceSubject(_, _)
ReplaceSubject(b, s) ==
  IF b = <<>> THEN <<>>
  ELSE (IF Head(b) = "{subject}" THEN s ELSE <<Head(b)>>)
         \o ReplaceSubject(Tail(b), s)

\* template.beats[:shot_count]
Take(seq, n) == SubSeq(seq, 1, IF n < Len(seq) THEN n ELSE Len(seq))

\* fill_template
FillTemplate(template, subject, n) ==
  LET s == OrTheHero(Strip(subject))
      beats == Take(template.beats, n)
  IN  [i \in 1..Len(beats) |-> ReplaceSubject(beats[i], s)]

\* [t] * w
RECURSIVE Copies(_, _)
Copies(x, w) == IF w <= 0 THEN <<>> ELSE <<x>> \o Copies(x, w - 1)

\* a pool that holds every template once, whatever the weights
UnweightedPool(templates, weights) == templates

\* the pool of get_weighted_templates before the shuffle
RECURSIVE WeightedPool(_, _)
WeightedPool(templates, weights) ==
  IF templates = <<>> THEN <<>>
  ELSE Copies(Head(templates), weights[Head(templates).genre])
         \o WeightedPool(Tail(templates), weights)

\* get_weighted_templates(weights, count=1): what pool[:1] can hold after
\* random.shuffle(pool), as the set of possible lists: any element of the pool
\* can come first.
GetWeightedTemplates(weights) ==
  LET pool == IF WeightedPool(TEMPLATES, weights) = <<>>
              THEN TEMPLATES ELSE WeightedPool(TEMPLATES, weights)
  IN  {<<TEMPLATES[k]>> :
         k \in {j \in 1..Len(TEMPLATES) :
                  \E i \in 1..Len(pool) : pool[i] = TEMPLATES[j]}}

\* ================================================================== pack
\* ------------------------------------------------------------------ bounds
\* Largest shot_count passed to pack.
MaxShotCount == 21
\* Longest JSON array the service answers with.
MaxItems == 2

\* count = max(2, min(shot_count, 20))
MinShots == 2
MaxShots == 20
ClampCount(n) ==
  LET m == IF n < MaxShots THEN n ELSE MaxShots
  IN  IF m > MinShots THEN m ELSE MinShots

\* A JSON object is a record of the four keys the pipeline reads; Absent marks a
\* key the object does not have. Any other JSON value (string, number, null,
\* nested array) is NonObject.
Absent == <<"<absent>">>
Dict(p, l, i, v) ==
  [obj |-> TRUE, prompt |-> p, shot_label |-> l, imagePrompt |-> i,
   videoPrompt |-> v]
NonObject ==
  [obj |-> FALSE, prompt |-> Absent, shot_label |-> Absent,
   imagePrompt |-> Absent, videoPrompt |-> Absent]

\* d.get(key, default)
Get(value, default) == IF value = Absent THEN default ELSE value

SeqsUpTo(S, n) == UNION {[1..k -> S] : k \in 0..n}

\* The text of a service response, by its shape: a JSON array alone, another
\* JSON value alone, prose around a fenced block holding an array, prose around
\* a bare [...] array, or text with no JSON in it.
RawForms == {"json_array", "json_other", "fenced_array", "prose_array", "text"}
Raw(form, items) == [form |-> form, items |-> items]

NoArray == [ok |-> FALSE, items |-> <<>>]
SomeArray(items) == [ok |-> TRUE, items |-> items]

\* json.loads(text.strip()) gives a list
WholeIsList(raw) == raw.form = "json_array"
\* the ```(?:json)? ... ``` block exists and json.loads of it gives a list
FencedIsList(raw) == raw.form = "fenced_array"
\* the \[[\s\S]*\] span exists and json.loads of it gives a list
BracketIsList(raw) == raw.form \in {"json_array", "fenced_array", "prose_array"}

\* _extract_json_array
ExtractJsonArray(raw) ==
  IF WholeIsList(raw) THEN SomeArray(raw.items)
  ELSE IF FencedIsList(raw) THEN SomeArray(raw.items)
  ELSE IF BracketIsList(raw) THEN SomeArray(raw.items)
  ELSE NoArray

\* _generate either raises or returns the response text.
Failed == [kind |-> "error", raw |-> Raw("text", <<>>)]
Replied(raw) == [kind |-> "raw", raw |-> raw]
Replies(elems) ==
  {Failed}
    \cup {Replied(Raw(f, <<>>)) : f \in {"json_other", "text"}}
    \cup {Replied(Raw(f, l)) :
            f \in {"json_array", "fenced_array", "prose_array"},
            l \in SeqsUpTo(elems, MaxItems)}

\* What a reply amounted to: the call raised, no array was recovered, or an array.
Outcome(reply) ==
  IF reply.kind = "error" THEN [kind |-> "error", items |-> <<>>]
  ELSE IF ExtractJsonArray(reply.raw).ok
       THEN [kind |-> "array", items |-> ExtractJsonArray(reply.raw).items]
  ELSE [kind |-> "noarray", items |-> <<>>]
NoOutcome == [kind |-> "none", items |-> <<>>]

\* Elements the storyboard reply is built from.
ScenePrompt == <<"A harbor at dawn, slow dolly in.">>
SceneLabel == <<"Harbor at dawn">>
ShotElems ==
  {Dict(ScenePrompt, SceneLabel, Absent, Absent),
   Dict(ScenePrompt, Absent, Absent, Absent),
   Dict(Absent, SceneLabel, Absent, Absent),
   NonObject}

\* Elements the refinement reply is built from.
RefinedImage == <<"harbor at dawn, golden hour, 85mm">>
RefinedVideo == <<"Slow dolly in on a harbor at dawn.">>
RefineElems ==
  {Dict(Absent, Absent, RefinedImage, RefinedVideo),
   Dict(Absent, Absent, RefinedImage, Absent),
   NonObject}

\* f"Shot {i+1}"
ShotLabel(i) == <<"Shot ", ToString(i)>>

\* _fallback_shots leaving videoPrompt empty
FallbackShotsNoVideo(subject, templates, n) ==
  LET template == IF templates # <<>> THEN templates[1] ELSE TEMPLATES[1]
      beats == FillTemplate(template, OrTheHero(subject), n)
  IN  [i \in 1..Len(beats) |-> Dict(beats[i], ShotLabel(i), beats[i], <<>>)]

\* _fallback_shots, given what get_weighted_templates returned
FallbackShots(subject, templates, n) ==
  LET template == IF templates # <<>> THEN templates[1] ELSE TEMPLATES[1]
      beats == FillTemplate(template, OrTheHero(subject), n)
  IN  [i \in 1..Len(beats) |-> Dict(beats[i], ShotLabel(i), beats[i], beats[i])]

\* s["prompt"] raises for an element that is no object or has no such key
PromptRaises(shots) ==
  \E i \in 1..Len(shots) : ~shots[i].obj \/ shots[i].prompt = Absent

\* refined[i].get(...) raises for an element that is no object
GetRaises(refined) == \E i \in 1..Len(refined) : ~refined[i].obj

RefineNone(called, raised) ==
  [called |-> called, raised |-> raised, ok |-> FALSE, items |-> <<>>]

\* `if refined and len(refined) >= len(shots)`
RefineAcceptsLonger(refined, shots) ==
  refined.ok /\ refined.items # <<>> /\ Len(refined.items) >= Len(shots)

\* `if refined and len(refined) == len(shots)`
RefineAccepts(refined, shots) ==
  refined.ok /\ refined.items # <<>> /\ Len(refined.items) = Len(shots)

\* _refine_prompts: whether a request was sent, whether an exception escaped,
\* and the list returned (ok) or None.
RefinePrompts(shots, imodel, vmodel, reply) ==
  IF ~HasGuideText(imodel) /\ ~HasGuideText(vmodel) THEN RefineNone(FALSE, FALSE)
  ELSE IF PromptRaises(shots) THEN RefineNone(FALSE, TRUE)
  ELSE IF reply.kind = "error" THEN RefineNone(TRUE, FALSE)
  ELSE LET refined == ExtractJsonArray(reply.raw)
       IN  IF RefineAccepts(refined, shots) /\ ~GetRaises(refined.items)
           THEN [called |-> TRUE, raised |-> FALSE, ok |-> TRUE,
                 items |-> [i \in 1..Len(shots) |->
                    [shots[i] EXCEPT
                       !.imagePrompt =
                          Get(refined.items[i].imagePrompt, shots[i].prompt),
                       !.videoPrompt =
                          Get(refined.items[i].videoPrompt, shots[i].prompt)]]]
           ELSE RefineNone(TRUE, FALSE)

\* {**s, ...} raises for an element that is no object
SpreadRaises(shots) == \E i \in 1..Len(shots) : ~shots[i].obj

\* lines 638-645
WithDefaultPrompts(shots) ==
  [i \in 1..Len(shots) |->
     [shots[i] EXCEPT !.imagePrompt = Get(shots[i].prompt, <<>>),
                      !.videoPrompt = Get(shots[i].prompt, <<>>)]]

Genres == {ALL_GENRES[i] : i \in 1..Len(ALL_GENRES)}
NoWeights == [g \in Genres |-> 0]

\* genre_weights: None (or {}), or a non-empty dict read through
\* weights.get(genre, 0)
WeightChoices ==
  {[given |-> FALSE, w |-> NoWeights],
   [given |-> TRUE, w |-> NoWeights],
   [given |-> TRUE,
    w |-> [NoWeights EXCEPT !["horror"] = 2, !["comedy"] = -1, !["scifi"] = 1]]}

Concepts == {<<>>, <<" ">>, <<" ", "a lighthouse keeper">>}

\* (image_model, video_model): neither given, one without a guide, an image
\* model with a guide, a video model with a guide
ModelPairs ==
  {<< <<>>, <<>> >>, << <<"sdxl">>, <<>> >>, << <<"flux", "_dev">>, <<>> >>,
   << <<"sdxl">>, <<"ltx", "2">> >>}

\* weights = genre_weights or {"action": 50}
DefaultWeights == [NoWeights EXCEPT !["action"] = 50]
WeightsOf(gw) == IF gw.given THEN gw.w ELSE DefaultWeights

NotRefined == RefineNone(FALSE, FALSE)
NotGiven == [given |-> FALSE, w |-> NoWeights]

PackParked ==
  /\ shot_count = 0 /\ concept = <<>> /\ genre_weights = NotGiven
  /\ image_model = <<>> /\ video_model = <<>>
  /\ pk_pc = "idle" /\ pk_online = FALSE /\ pk_requests = 0
  /\ pk_model = None
  /\ pk_gen = NoOutcome /\ pk_ref = NoOutcome /\ pk_refined = NotRefined
  /\ pk_template = "" /\ pk_result = <<>> /\ pk_raised = FALSE

\* A call of pack. shot_count is read at once (line 578). The other arguments
\* are drawn where pack first reads them for anything but the prompt text:
\* concept and genre_weights where the offline path is taken, image_model and
\* video_model at line 632. Until then they hold the defaults of the signature.
InitPack ==
  /\ shot_count \in 0..MaxShotCount
  /\ concept = <<>> /\ genre_weights = NotGiven
  /\ image_model = <<>> /\ video_model = <<>>
  /\ pk_pc = "start" /\ pk_online = FALSE /\ pk_requests = 0
  /\ pk_model = None
  /\ pk_gen = NoOutcome /\ pk_ref = NoOutcome /\ pk_refined = NotRefined
  /\ pk_template = "" /\ pk_result = <<>> /\ pk_raised = FALSE

\* get_model_name(): the cached name, or what detect_model finds now (cached
\* when it finds one), or DEFAULT_MODEL
GetModelName(name) ==
  IF cached_model # None
  THEN name = cached_model /\ UNCHANGED cached_model
  ELSE \E reachable \in BOOLEAN, listing \in Listings :
         LET detected == IF reachable THEN DetectModel(listing) ELSE None
         IN  /\ cached_model' = detected
             /\ name = IF detected # None THEN detected ELSE DEFAULT_MODEL

UnchangedButCache ==
  UNCHANGED <<setup_status, setup_lock, setup_done, platform, pc, ret,
              calledDuringPull, probe_ok, model_ok>>

\* get_model_name() called from the prompt pipeline while the lifecycle
\* manager runs; it takes no lock.
LookupModel ==
  /\ \E name \in {DEFAULT_MODEL, LlamaModel} : GetModelName(name)
  /\ UnchangedButCache
  /\ UNCHANGED notLifecycleVars

\* return _fallback_shots(concept, weights, count)
ReturnFallback ==
  \E c \in Concepts, gw \in WeightChoices :
    \E templates \in GetWeightedTemplates(WeightsOf(gw)) :
      /\ concept' = c
      /\ genre_weights' = gw
      /\ pk_result' = FallbackShots(c, templates, ClampCount(shot_count))
      /\ pk_template' = templates[1].genre
      /\ pk_raised' = FALSE
      /\ pk_pc' = "done"

\* lines 638-645, or the TypeError they raise
ReturnDefaults(shots) ==
  /\ pk_raised' = SpreadRaises(shots)
  /\ pk_result' = IF SpreadRaises(shots) THEN <<>> ELSE WithDefaultPrompts(shots)
  /\ pk_pc' = "done"
  /\ UNCHANGED pk_template

\* lines 578-583
PackProbe ==
  /\ pk_pc = "start"
  /\ \E online \in BOOLEAN :
       /\ pk_online' = online
       /\ IF ~online
          THEN ReturnFallback
          ELSE /\ pk_pc' = "generate"
               /\ UNCHANGED <<concept, genre_weights, pk_result, pk_template,
                              pk_raised>>
  /\ UNCHANGED <<shot_count, image_model, video_model, pk_requests, pk_model,
                 pk_gen, pk_ref, pk_refined>>
  /\ UNCHANGED <<lifecycleVars, notPackVars>>

\* lines 614-632 and, when no target model is given, 638-645
PackGenerate ==
  /\ pk_pc = "generate"
  /\ \E name \in {DEFAULT_MODEL, LlamaModel} :
       GetModelName(name) /\ pk_model' = name
  /\ pk_requests' = pk_requests + 1
  /\ \E reply \in Replies(ShotElems) :
       /\ pk_gen' = Outcome(reply)
       /\ IF pk_gen'.kind # "array" \/ Len(pk_gen'.items) = 0
          THEN /\ ReturnFallback
               /\ UNCHANGED <<image_model, video_model>>
          ELSE /\ \E pair \in ModelPairs :
                    /\ image_model' = pair[1]
                    /\ video_model' = pair[2]
                    /\ IF pair[1] # <<>> \/ pair[2] # <<>>
                       THEN /\ pk_pc' = "refine"
                            /\ UNCHANGED <<pk_result, pk_template, pk_raised>>
                       ELSE ReturnDefaults(pk_gen'.items)
               /\ UNCHANGED <<concept, genre_weights>>
  /\ UNCHANGED <<shot_count, pk_online, pk_ref, pk_refined>>
  /\ UnchangedButCache
  /\ UNCHANGED notPackVars

\* lines 633-645
PackRefine ==
  /\ pk_pc = "refine"
  /\ \E reply \in Replies(RefineElems) :
       \E r \in {RefinePrompts(pk_gen.items, image_model, video_model, reply)} :
           /\ pk_refined' = r
           /\ pk_ref' = IF r.called THEN Outcome(reply) ELSE NoOutcome
           /\ pk_requests' = IF r.called THEN pk_requests + 1 ELSE pk_requests
           /\ IF r.raised
              THEN /\ pk_raised' = TRUE
                   /\ pk_result' = <<>>
                   /\ pk_pc' = "done"
                   /\ UNCHANGED pk_template
              ELSE IF r.ok /\ r.items # <<>>
              THEN /\ pk_result' = r.items
                   /\ pk_raised' = FALSE
                   /\ pk_pc' = "done"
                   /\ UNCHANGED pk_template
              ELSE ReturnDefaults(pk_gen.items)
  /\ UNCHANGED <<shot_count, concept, genre_weights, image_model, video_model,
                 pk_online, pk_model, pk_gen>>
  /\ UNCHANGED <<lifecycleVars, notPackVars>>

NextPack == PackProbe \/ PackGenerate \/ PackRefine


\* ------------------------------------------------- refine_single_prompt

MaxReplyLen == 11
MaxPad == 1
MaxRounds == 2

\* `len(refined) > 10`
RefinedFloor == 10

\* Texts here are sequences of single characters.
Repeat(ch, n) == [i \in 1..n |-> ch]
Padded(lead, body, trail) == Repeat(" ", lead) \o body \o Repeat(" ", trail)

\* Response bodies of every length up to MaxReplyLen, with and without a blank
\* inside.
Bodies ==
  {Repeat("x", n) : n \in 0..MaxReplyLen}
    \cup {[i \in 1..n |-> IF i = 2 THEN " " ELSE "x"] : n \in 3..MaxReplyLen}

ReplyTexts ==
  {Padded(lead, body, trail) :
     lead \in 0..MaxPad, body \in Bodies, trail \in 0..MaxPad}

\* _generate raises, or r.json().get("response", "") is a string, or it is
\* some other JSON value
NoReply == [kind |-> "none", text |-> <<>>]
SingleReplies ==
  {[kind |-> "error", text |-> <<>>], [kind |-> "nonstring", text |-> <<>>]}
    \cup {[kind |-> "text", text |-> t] : t \in ReplyTexts}

RawPrompts == {<<>>, <<" ", "c", "a", "t", " ">>}
ModelIds == {<<>>, <<"sdxl">>, <<"flux", "_dev">>, <<"ltx", "2", "_custom">>}

\* `if refined and len(refined) >= 10`
KeepsRefinedAtFloor(refined) == refined # <<>> /\ Len(refined) >= RefinedFloor

\* `if refined and len(refined) > 10`
KeepsRefined(refined) == refined # <<>> /\ Len(refined) > RefinedFloor

SingleParked ==
  /\ raw_prompt = <<>> /\ model_id = <<>>
  /\ rs_pc = "idle" /\ rs_online = FALSE /\ rs_calls = 0
  /\ rs_reply = NoReply /\ rs_result = <<>> /\ rs_raised = FALSE
  /\ rs_round = 0

InitSingle ==
  /\ raw_prompt \in RawPrompts /\ model_id \in ModelIds
  /\ rs_pc = "start" /\ rs_online = FALSE /\ rs_calls = 0
  /\ rs_reply = NoReply /\ rs_result = <<>> /\ rs_raised = FALSE
  /\ rs_round = 1

\* return raw_prompt
ReturnRaw ==
  /\ rs_result' = raw_prompt
  /\ rs_raised' = FALSE
  /\ rs_pc' = "done"

\* lines 524-527
SingleGuide ==
  /\ rs_pc = "start"
  /\ IF ~HasGuideText(model_id)
     THEN ReturnRaw
     ELSE rs_pc' = "probe" /\ UNCHANGED <<rs_result, rs_raised>>
  /\ UNCHANGED <<raw_prompt, model_id, rs_online, rs_calls, rs_reply, rs_round>>
  /\ UNCHANGED <<lifecycleVars, notSingleVars>>

\* lines 529-531
SingleProbe ==
  /\ rs_pc = "probe"
  /\ rs_calls' = rs_calls + 1
  /\ \E online \in BOOLEAN :
       /\ rs_online' = online
       /\ IF ~online
          THEN ReturnRaw
          ELSE rs_pc' = "generate" /\ UNCHANGED <<rs_result, rs_raised>>
  /\ UNCHANGED <<raw_prompt, model_id, rs_reply, rs_round>>
  /\ UNCHANGED <<lifecycleVars, notSingleVars>>

\* lines 546-562
SingleGenerate ==
  /\ rs_pc = "generate"
  /\ \E name \in {DEFAULT_MODEL, LlamaModel} : GetModelName(name)
  /\ rs_calls' = rs_calls + (IF cached_model = None THEN 2 ELSE 1)
  /\ \E reply \in SingleReplies :
       /\ rs_reply' = reply
       /\ IF reply.kind = "text" /\ KeepsRefined(Strip(reply.text))
          THEN /\ rs_result' = Strip(reply.text)
               /\ rs_raised' = FALSE
               /\ rs_pc' = "done"
          ELSE ReturnRaw
  /\ UNCHANGED <<raw_prompt, model_id, rs_online, rs_round>>
  /\ UnchangedButCache
  /\ UNCHANGED notSingleVars

\* the caller makes the same call again
SingleAgain ==
  /\ rs_pc = "done"
  /\ rs_round < MaxRounds
  /\ rs_round' = rs_round + 1
  /\ rs_pc' = "start"
  /\ rs_online' = FALSE /\ rs_calls' = 0 /\ rs_reply' = NoReply
  /\ rs_result' = <<>> /\ rs_raised' = FALSE
  /\ UNCHANGED <<raw_prompt, model_id>>
  /\ UNCHANGED <<lifecycleVars, notSingleVars>>

NextSingle == SingleGuide \/ SingleProbe \/ SingleGenerate \/ SingleAgain

\* ------------------------------------------- save_project, load_project
\* (src/state.py)  One project directory, one thread saving and one thread
\* loading.  A file's content is a record: missing, a partial document (what
\* an interrupted write leaves) or a complete one; path names are strings.

\* ------------------------------------------------------------------ bounds
MaxClock == 2   \* time.time() readings, so save_project calls that stamp

\* A key the dict does not have, and a state without a saved_at key.
AbsentKey == "<absent>"
NoTime == -1

ProjDir == "projects/robot"
JsonName == "project.json"
CleanupName == "project.json.tmp"
TmpIsPath(path) == path
TmpOf(path) == path \o ".tmp"
FileNames == {JsonName, CleanupName}

Shot(status, video_status) ==
  [status |-> status, video_status |-> video_status]
StoredShots ==
  {<<>>, <<Shot("pending", AbsentKey)>>, <<Shot("approved", "approved")>>}

\* The project states save_project is given.
ProjectStates ==
  [concept : {"robot"}, project_dir : {"", ProjDir}, saved_at : {NoTime, 0},
   shots : StoredShots]
NoState ==
  [concept |-> AbsentKey, project_dir |-> AbsentKey, saved_at |-> NoTime,
   shots |-> <<>>]

Missing == [kind |-> "missing", body |-> NoState]
Truncated == [kind |-> "partial", body |-> NoState]
\* json.dump(data, f, indent=2, default=str) followed by the close of f: every
\* value of a project state is JSON-native, so the document holds them as
\* they are.
Dumped(d) == [kind |-> "complete", body |-> d]

\* os.remove and os.replace.
RemovedNothing(f, name) == f
Removed(f, name) == [f EXCEPT ![name] = Missing]
Replaced(f, src, dst) == [g \in DOMAIN f |->
  IF g = dst THEN f[src] ELSE IF g = src THEN Missing ELSE f[g]]
Exists(f, name) == f[name].kind # "missing"

\* load_project's return value: None, or the parsed dict with project_dir set.
NotLoaded == [found |-> FALSE, state |-> NoState]
LoadedAsStored(content, dir) == [found |-> TRUE, state |-> content.body]
Loaded(content, dir) ==
  [found |-> TRUE, state |-> [content.body EXCEPT !.project_dir = dir]]

\* The directory before the session: project.json from an earlier session or
\* none, no temp file.
OldState ==
  [concept |-> "robot", project_dir |-> ProjDir, saved_at |-> 0,
   shots |-> <<Shot("pending", AbsentKey)>>]
StartFiles ==
  {[n \in FileNames |-> IF n = JsonName THEN c ELSE Missing] :
     c \in {Missing, Dumped(OldState)}}

StoreParked ==
  /\ files = [n \in FileNames |-> Missing]
  /\ clock = 1
  /\ sb_state = NoState
  /\ sv_project_dir = ""
  /\ sv_data = NoState
  /\ sv_pc = "idle"
  /\ sv_outcome = "none"
  /\ sv_before = Missing
  /\ sv_cleanup = "none"
  /\ ld_pc = "idle"
  /\ ld_result = NotLoaded
  /\ ld_candidates = {}

InitStore ==
  /\ files \in StartFiles
  /\ clock = 1
  /\ sb_state = NoState
  /\ sv_project_dir = ""
  /\ sv_data = NoState
  /\ sv_pc = "idle"
  /\ sv_outcome = "none"
  /\ sv_before = Missing
  /\ sv_cleanup = "none"
  /\ ld_pc = "idle"
  /\ ld_result = NotLoaded
  /\ ld_candidates = {}

loadVars == <<ld_pc, ld_result>>
saveLocals == <<sb_state, sv_project_dir, sv_data, sv_before>>

\* save_project(sb_state, project_dir): the defaults of project_dir and the
\* early return when there is none.
SaveCall ==
  /\ sv_pc \in {"idle", "done"}
  /\ clock <= MaxClock
  /\ \E s \in ProjectStates, d \in {"", ProjDir} :
       /\ sb_state' = s
       /\ sv_project_dir' = IF d # "" THEN d ELSE s.project_dir
  /\ sv_data' = NoState
  /\ sv_before' = files[JsonName]
  /\ sv_cleanup' = "none"
  /\ IF sv_project_dir' = ""
       THEN sv_pc' = "done" /\ sv_outcome' = "skipped"
       ELSE sv_pc' = "makedirs" /\ sv_outcome' = "running"
  /\ UNCHANGED <<files, clock, loadVars, ld_candidates>>
  /\ UNCHANGED notStoreVars

\* os.makedirs(project_dir, exist_ok=True): done, or raises.
SaveMakedirs ==
  /\ sv_pc = "makedirs"
  /\ \E ok \in BOOLEAN : sv_pc' = IF ok THEN "build" ELSE "except"
  /\ UNCHANGED <<files, clock, saveLocals, sv_outcome, sv_cleanup, loadVars,
                 ld_candidates>>
  /\ UNCHANGED notStoreVars

\* data = dict(sb_state); data["saved_at"] = time.time()
SaveBuild ==
  /\ sv_pc = "build"
  /\ sv_data' = [sb_state EXCEPT !.saved_at = clock]
  /\ clock' = clock + 1
  /\ sv_pc' = "open"
  /\ UNCHANGED <<files, sb_state, sv_project_dir, sv_before, sv_outcome,
                 sv_cleanup, loadVars, ld_candidates>>
  /\ UNCHANGED notStoreVars

\* open(tmp, "w"): creates or truncates the temp file, or raises.
SaveOpen ==
  /\ sv_pc = "open"
  /\ \E ok \in BOOLEAN :
       IF ok
         THEN /\ files' = [files EXCEPT ![TmpOf(JsonName)] = Truncated]
              /\ sv_pc' = "dump"
         ELSE /\ files' = files
              /\ sv_pc' = "except"
  /\ UNCHANGED <<clock, saveLocals, sv_outcome, sv_cleanup, loadVars,
                 ld_candidates>>
  /\ UNCHANGED notStoreVars

\* json.dump into the open file and the close at the end of the with block:
\* the whole document is written, or the write raises part-way.
SaveDump ==
  /\ sv_pc = "dump"
  /\ \E ok \in BOOLEAN :
       IF ok
         THEN /\ files' = [files EXCEPT ![TmpOf(JsonName)] = Dumped(sv_data)]
              /\ sv_pc' = "replace"
         ELSE /\ files' = files
              /\ sv_pc' = "except"
  /\ UNCHANGED <<clock, saveLocals, sv_outcome, sv_cleanup, loadVars,
                 ld_candidates>>
  /\ UNCHANGED notStoreVars

\* os.replace(tmp, path): the rename happens at once, or raises.
SaveReplace ==
  /\ sv_pc = "replace"
  /\ \E ok \in BOOLEAN :
       IF ok
         THEN /\ files' = Replaced(files, TmpOf(JsonName), JsonName)
              /\ sv_pc' = "done"
              /\ sv_outcome' = "saved"
              /\ ld_candidates' =
                   IF ld_pc \in {"exists", "read"}
                     THEN ld_candidates \cup {files'[JsonName]}
                     ELSE ld_candidates
         ELSE /\ files' = files
              /\ sv_pc' = "except"
              /\ UNCHANGED <<sv_outcome, ld_candidates>>
  /\ UNCHANGED <<clock, saveLocals, sv_cleanup, loadVars>>
  /\ UNCHANGED notStoreVars

\* except Exception: the temp file is removed when it exists; an OSError of
\* the removal is passed over.
SaveExcept ==
  /\ sv_pc = "except"
  /\ IF Exists(files, CleanupName)
       THEN \E ok \in BOOLEAN :
              IF ok
                THEN /\ files' = Removed(files, CleanupName)
                     /\ sv_cleanup' = "removed"
                ELSE /\ files' = files
                     /\ sv_cleanup' = "remove_failed"
       ELSE /\ files' = files
            /\ sv_cleanup' = "none"
  /\ sv_pc' = "done"
  /\ sv_outcome' = "failed"
  /\ UNCHANGED <<clock, saveLocals, loadVars, ld_candidates>>
  /\ UNCHANGED notStoreVars

\* load_project(project_dir) is called.
LoadCall ==
  /\ ld_pc \in {"idle", "done"}
  /\ ld_pc' = "exists"
  /\ ld_result' = NotLoaded
  /\ ld_candidates' = {files[JsonName]}
  /\ UNCHANGED <<files, clock, saveLocals, sv_pc, sv_outcome, sv_cleanup>>
  /\ UNCHANGED notStoreVars

\* if not os.path.exists(path): return None
LoadExists ==
  /\ ld_pc = "exists"
  /\ ld_pc' = IF Exists(files, JsonName) THEN "read" ELSE "done"
  /\ UNCHANGED <<files, clock, saveLocals, sv_pc, sv_outcome, sv_cleanup,
                 ld_result, ld_candidates>>
  /\ UNCHANGED notStoreVars

\* open(path), json.load and data["project_dir"] = project_dir; a file that
\* is gone or does not parse raises, and the except branch returns None.
LoadRead ==
  /\ ld_pc = "read"
  /\ ld_result' = IF files[JsonName].kind = "complete"
                    THEN Loaded(files[JsonName], ProjDir)
                    ELSE NotLoaded
  /\ ld_pc' = "done"
  /\ UNCHANGED <<files, clock, saveLocals, sv_pc, sv_outcome, sv_cleanup,
                 ld_candidates>>
  /\ UNCHANGED notStoreVars

NextStore ==
  \/ SaveCall \/ SaveMakedirs \/ SaveBuild \/ SaveOpen \/ SaveDump
  \/ SaveReplace \/ SaveExcept
  \/ LoadCall \/ LoadExists \/ LoadRead

\* ---------------------------------------------------- create_project_dir
\* (src/state.py)  A concept and a directory name are sequences of
\* one-character strings; a path under the base directory is a directory
\* name and a subfolder name ("" for the directory itself).

\* ------------------------------------------------------------------ bounds
MaxCreates == 3   \* create_project_dir calls

SlugMaxLen == 40

Lower(c) == IF c = "A" THEN "a" ELSE IF c = "B" THEN "b" ELSE c
\* \s, and the class [a-z0-9\s-] among the characters used here
Spaces == {" "}
KeptChars ==
  {"a", "b", "u", "n", "t", "i", "l", "e", "d", "2", "3", " ", "-"}

RECURSIVE LStripChars(_, _)
LStripChars(s, chars) ==
  IF s # <<>> /\ Head(s) \in chars THEN LStripChars(Tail(s), chars) ELSE s
RECURSIVE RStripChars(_, _)
RStripChars(s, chars) ==
  IF s # <<>> /\ s[Len(s)] \in chars
    THEN RStripChars(SubSeq(s, 1, Len(s) - 1), chars)
    ELSE s
StripChars(s, chars) == RStripChars(LStripChars(s, chars), chars)

\* re.sub(r"[<chars>]+", "-", slug): each maximal run becomes one hyphen.
RECURSIVE RunsToHyphen(_, _)
RunsToHyphen(s, chars) ==
  IF s = <<>> THEN <<>>
  ELSE IF Head(s) \in chars
    THEN <<"-">> \o RunsToHyphen(LStripChars(s, chars), chars)
    ELSE <<Head(s)>> \o RunsToHyphen(Tail(s), chars)

Untitled == <<"u", "n", "t", "i", "t", "l", "e", "d">>

\* slugify_concept(concept, max_len=40)
Slugify(text) ==
  LET IsKept(c) == c \in KeptChars
      lowered == StripChars([k \in DOMAIN text |-> Lower(text[k])], Spaces)
      kept == SelectSeq(lowered, IsKept)
      spaced == RunsToHyphen(kept, Spaces \cup {"_"})
      collapsed == StripChars(RunsToHyphen(spaced, {"-"}), {"-"})
      cut == RStripChars(SubSeq(collapsed, 1,
                           IF Len(collapsed) < SlugMaxLen THEN Len(collapsed)
                                                          ELSE SlugMaxLen),
                    {"-"})
  IN  IF cut = <<>> THEN Untitled ELSE cut

\* The decimal digits of i, as f"{i}" writes them.
RECURSIVE Digits(_)
Digits(i) ==
  IF i < 10 THEN <<ToString(i)>>
            ELSE Digits(i \div 10) \o <<ToString(i % 10)>>
\* f"{project_dir}-{i}"
Suffixed(dir, i) == dir \o <<"-">> \o Digits(i)

At(dir, sub) == [dir |-> dir, sub |-> sub]
\* os.path.exists(project_dir)
DirExists(paths, dir) == At(dir, "") \in paths

\* i = 2; while os.path.exists(f"{project_dir}-{i}"): i += 1
AlwaysTwo(paths, dir, i) == 2
RECURSIVE NextFree(_, _, _)
NextFree(paths, dir, i) ==
  IF DirExists(paths, Suffixed(dir, i)) THEN NextFree(paths, dir, i + 1) ELSE i

\* The directory create_project_dir decides on.
ChosenDir(paths, text) ==
  LET project_dir == Slugify(text)
  IN  IF DirExists(paths, project_dir)
        THEN Suffixed(project_dir, NextFree(paths, project_dir, 2))
        ELSE project_dir

Subfolders == <<"characters", "images", "videos">>
\* os.makedirs(os.path.join(project_dir, sub), exist_ok=True), for the first
\* made subfolders.
MadeDirs(dir, made) ==
  {At(dir, "")} \cup {At(dir, Subfolders[k]) : k \in 1..made}

ProjectConcepts ==
  {<<>>, <<"A">>, <<"a", "!">>, <<" ", "a", " ", " ", "2">>,
   <<"a", "_", "-", "-", "B", "-">>}
\* What the base directory holds before the session.
StartDirs ==
  {MadeDirs(<<"a">>, 3), MadeDirs(<<"a">>, 3) \cup MadeDirs(<<"a", "-", "2">>, 3)}
StartPaths == {{}} \cup StartDirs \cup {MadeDirs(<<"a", "-", "2">>, 3)}

CreateParked ==
  /\ existing = {}
  /\ cp_concept = <<>>
  /\ cp_existed = {}
  /\ cp_returned = <<>>
  /\ cp_raised = FALSE
  /\ cp_calls = 0

InitCreate ==
  /\ existing \in StartPaths
  /\ cp_concept = <<>>
  /\ cp_existed = {}
  /\ cp_returned = <<>>
  /\ cp_raised = FALSE
  /\ cp_calls = 0

\* create_project_dir(concept): the three os.makedirs calls succeed, or one
\* of them raises after the earlier ones (and possibly the project directory
\* itself) were made, and nothing is returned.
CreateProjectDir ==
  /\ cp_calls < MaxCreates
  /\ cp_calls' = cp_calls + 1
  /\ \E c \in ProjectConcepts, made \in 0..3, parent \in BOOLEAN :
       LET project_dir == ChosenDir(existing, c)
       IN  /\ cp_concept' = c
           /\ cp_existed' = existing
           /\ existing' =
                existing \cup
                  (IF made > 0 \/ parent THEN MadeDirs(project_dir, made)
                                         ELSE {})
           /\ cp_raised' = (made < 3)
           /\ cp_returned' =
                IF made = 3 THEN Append(cp_returned, project_dir)
                            ELSE cp_returned
  /\ UNCHANGED notCreateVars

NextCreate == CreateProjectDir

\* -------------------------------------------------------- copy_to_project
\* (src/state.py)  Sources of one basename are copied into one subfolder; a
\* file name is a sequence of tokens, a file's content is the number of the
\* call that copied it.

\* ------------------------------------------------------------------ bounds
MaxCopies == 4   \* copy_to_project calls
MaxSecond == 3   \* readings of int(time.time())

\* os.path.splitext(basename)
BaseName == <<"shot">>
BaseExt == <<".png">>
\* os.path.join(dest_dir, basename)
PlainDest == BaseName \o BaseExt
\* f"{name}_{ts}{ext}"
StampedDest(ts) == BaseName \o <<"_", ToString(ts)>> \o BaseExt
DestNames == {PlainDest} \cup {StampedDest(t) : t \in 1..MaxSecond}
\* The source path, returned when nothing was copied.
SrcPath == <<"outputs", "/">> \o PlainDest

\* dest: the plain name, or the stamped one when the plain name exists.
DestFor(f, ts) == IF f[PlainDest] # 0 THEN StampedDest(ts) ELSE PlainDest

CopyParked ==
  /\ ctp_files = [n \in DestNames |-> 0]
  /\ ctp_now = 1
  /\ ctp_log = <<>>
  /\ ctp_ret = <<>>
  /\ ctp_calls = 0

InitCopy == CopyParked

\* copy_to_project(src_path, project_dir, subfolder): without a project
\* directory or an existing source the source path comes back; otherwise
\* shutil.copy2 writes dest, replacing a file of that name, or raises and the
\* source path comes back.
CopyToProject ==
  /\ ctp_calls < MaxCopies
  /\ ctp_calls' = ctp_calls + 1
  /\ \E ts \in ctp_now..MaxSecond, usable \in BOOLEAN, ok \in BOOLEAN :
       /\ ctp_now' = ts
       /\ IF usable /\ ok
            THEN LET dest == DestFor(ctp_files, ts)
                 IN  /\ ctp_files' = [ctp_files EXCEPT ![dest] = ctp_calls']
                     /\ ctp_log' =
                          Append(ctp_log,
                                 [dest |-> dest, content |-> ctp_calls'])
                     /\ ctp_ret' = dest
            ELSE /\ ctp_ret' = SrcPath
                 /\ UNCHANGED <<ctp_files, ctp_log>>
  /\ UNCHANGED notCopyVars

NextCopy == CopyToProject

\* ------------------------------------------------------ duration_to_frames
\* (src/state.py)  Durations are counted in quarters of a second, which floats
\* hold exactly, so seconds * fps is the exact product.

\* ------------------------------------------------------------------ bounds
MaxQuarters == 24   \* the longest duration, in quarters of a second

MinQuarters == -1
FpsValues == {1, 8, 24, 30}

Max(a, b) == IF a >= b THEN a ELSE b
\* num / den for den > 0 taken to the next integer above
RoundUp(num, den) == (num + den - 1) \div den

\* round(num / den) for den > 0: to the nearest integer, halves to the even one.
Round(num, den) ==
  LET q == num \div den
      r == num % den
  IN  IF 2 * r < den THEN q
      ELSE IF 2 * r > den THEN q + 1
      ELSE IF q % 2 = 0 THEN q ELSE q + 1

SnapKeepsRaw(frames) == frames
\* snap_to_8n1(frames)
SnapTo8n1(frames) ==
  IF frames <= 17 THEN 17 ELSE Max(17, Round(frames - 1, 8) * 8 + 1)

\* duration_to_frames(seconds, fps, is_ltx) with seconds = quarters / 4
DurationToFrames(quarters, fps, is_ltx) ==
  LET raw == Max(1, Round(quarters * fps, 4))
  IN  IF is_ltx THEN SnapTo8n1(raw) ELSE raw

FramesParked ==
  /\ df_quarters = 0
  /\ df_fps = 24
  /\ df_is_ltx = FALSE
  /\ df_result = 0
  /\ df_pc = "idle"

InitFrames ==
  /\ df_quarters \in MinQuarters..MaxQuarters
  /\ df_fps \in FpsValues
  /\ df_is_ltx \in BOOLEAN
  /\ df_result = 0
  /\ df_pc = "called"

DurationCall ==
  /\ df_pc = "called"
  /\ df_result' = DurationToFrames(df_quarters, df_fps, df_is_ltx)
  /\ df_pc' = "done"
  /\ UNCHANGED <<df_quarters, df_fps, df_is_ltx>>
  /\ UNCHANGED notFramesVars

NextFrames == DurationCall

\* ----------------------------------------------- render batches, approval
\* (src/plugin.py)  The shots of one project as the session state, the
\* project file and each running batch hold them.  A listener is a button
\* whose click runs a batch; its generator runs from yield to yield.

\* ------------------------------------------------------------------ bounds
ShotCount == 2   \* shots of the project

STATUS_PENDING == "pending"
STATUS_RENDERING == "rendering"
STATUS_READY == "ready"
STATUS_APPROVED == "approved"
STATUS_REJECTED == "rejected"

ShotIds == 1..ShotCount
GenListeners == {"gen_images", "gen_images_bottom"}
ExportListeners == {"export", "export_bottom"}
Listeners == GenListeners \cup ExportListeners

\* A shot dict: status, whether ref_image_path is set, video_status, whether
\* video_path is set, and whether it has prompt text (image_prompt,
\* video_prompt or beat).
ShotOf(status, image, video_status, video) ==
  [status |-> status, ref_image_path |-> image,
   video_status |-> video_status, video_path |-> video, prompt |-> TRUE]
FreshShots ==
  [i \in ShotIds |-> ShotOf(STATUS_PENDING, FALSE, STATUS_PENDING, FALSE)]
\* The shots the storyboard step leaves: all with prompt text, or one without.
StoryboardShots ==
  {FreshShots} \cup {[FreshShots EXCEPT ![k].prompt = FALSE] : k \in ShotIds}

\* to_render taking every shot from i on, whatever its status
ToRenderAll(shots, field, i) == [k \in 1..(Len(shots) - i + 1) |-> k + i - 1]

\* to_render: the shots pending or rejected that have prompt text, in index
\* order.
RECURSIVE ToRender(_, _, _)
ToRender(shots, field, i) ==
  IF i > Len(shots) THEN <<>>
  ELSE (IF /\ shots[i][field] \in {STATUS_PENDING, STATUS_REJECTED}
           /\ shots[i].prompt
          THEN <<i>> ELSE <<>>) \o ToRender(shots, field, i + 1)

\* all_approved = approved == shot_count and shot_count > 0
AllApproved(shots) == \A i \in ShotIds : shots[i].status = STATUS_APPROVED
\* show = (status == STATUS_READY), for the changed shot
ShowChanged(shown, shots, i) ==
  [shown EXCEPT ![i] = (shots[i].status = STATUS_READY)]
\* _build_status_updates: every shot's buttons
ShowAll(shots) == [i \in ShotIds |-> shots[i].status = STATUS_READY]

AlwaysApproved(is_auto) == STATUS_APPROVED
\* STATUS_APPROVED if is_auto else STATUS_READY
RenderedStatus(is_auto) == IF is_auto THEN STATUS_APPROVED ELSE STATUS_READY

WizardParked ==
  /\ session = FreshShots
  /\ project_json = FreshShots
  /\ buttons = [i \in ShotIds |-> FALSE]
  /\ next_btn = FALSE
  /\ auto_mode = "Manual"
  /\ b_pc = [l \in Listeners |-> "idle"]
  /\ b_shots = [l \in Listeners |-> FreshShots]
  /\ b_todo = [l \in Listeners |-> <<>>]
  /\ b_auto = [l \in Listeners |-> FALSE]

\* Step 3 is entered: every shot pending, saved so by the storyboard step.
InitImages ==
  /\ session \in StoryboardShots
  /\ project_json = session
  /\ buttons = [i \in ShotIds |-> FALSE]
  /\ next_btn = FALSE
  /\ auto_mode \in {"Manual", "Auto"}
  /\ b_pc = [l \in Listeners |-> "idle"]
  /\ b_shots = [l \in Listeners |-> FreshShots]
  /\ b_todo = [l \in Listeners |-> <<>>]
  /\ b_auto = [l \in Listeners |-> FALSE]

\* The shots step 4 can be entered with: approved images with their paths
\* (a resumed project), approved ones without a path (approved on the
\* session's copy) or pending ones (approved by an Auto batch only).
Step4Shots ==
  [ShotIds -> {ShotOf(STATUS_APPROVED, TRUE, STATUS_PENDING, FALSE),
               ShotOf(STATUS_APPROVED, FALSE, STATUS_PENDING, FALSE),
               ShotOf(STATUS_PENDING, FALSE, STATUS_PENDING, FALSE)}]

\* Step 4 is entered; _enter_step4 has saved the session state.
InitVideos ==
  /\ session \in Step4Shots
  /\ project_json = session
  /\ buttons = [i \in ShotIds |-> FALSE]
  /\ next_btn = TRUE
  /\ auto_mode \in {"Manual", "Auto"}
  /\ b_pc = [l \in Listeners |-> "idle"]
  /\ b_shots = [l \in Listeners |-> FreshShots]
  /\ b_todo = [l \in Listeners |-> <<>>]
  /\ b_auto = [l \in Listeners |-> FALSE]

\* _queue_image_renders up to its first yield: the batch copies the session's
\* shots and picks to_render; with nothing to render it yields and returns.
\* sb_state is not among its outputs.
StartImages(l) ==
  /\ l \in GenListeners
  /\ b_pc[l] = "idle"
  /\ b_shots' = [b_shots EXCEPT ![l] = session]
  /\ b_todo' = [b_todo EXCEPT ![l] = ToRender(session, "status", 1)]
  /\ b_auto' = [b_auto EXCEPT ![l] = (auto_mode = "Auto")]
  /\ b_pc' = [b_pc EXCEPT ![l] = IF b_todo'[l] = <<>> THEN "idle" ELSE "todo"]
  /\ next_btn' = AllApproved(session)
  /\ UNCHANGED <<session, project_json, buttons, auto_mode>>
  /\ UNCHANGED notWizardVars

\* The loop body up to the yield before the render: the shot is rendering.
BeginImage(l) ==
  /\ l \in GenListeners
  /\ b_pc[l] = "todo"
  /\ LET i == Head(b_todo[l])
         shots == [b_shots[l] EXCEPT ![i].status = STATUS_RENDERING]
     IN  /\ b_shots' = [b_shots EXCEPT ![l] = shots]
         /\ buttons' = ShowChanged(buttons, shots, i)
         /\ next_btn' = AllApproved(shots)
  /\ b_pc' = [b_pc EXCEPT ![l] = "rendering"]
  /\ UNCHANGED <<session, project_json, auto_mode, b_todo, b_auto>>
  /\ UNCHANGED notWizardVars

\* The render, its result, save_project and the yield after it; after the
\* last shot the final yield follows.
EndImage(l) ==
  /\ l \in GenListeners
  /\ b_pc[l] = "rendering"
  /\ \E found \in BOOLEAN :
       LET i == Head(b_todo[l])
           shots ==
             IF found
               THEN [b_shots[l] EXCEPT ![i].ref_image_path = TRUE,
                                       ![i].status = RenderedStatus(b_auto[l])]
               ELSE [b_shots[l] EXCEPT ![i].status = STATUS_PENDING]
       IN  /\ b_shots' = [b_shots EXCEPT ![l] = shots]
           /\ project_json' = shots
           /\ buttons' = ShowChanged(buttons, shots, i)
           /\ next_btn' = AllApproved(shots)
  /\ b_todo' = [b_todo EXCEPT ![l] = Tail(b_todo[l])]
  /\ b_pc' = [b_pc EXCEPT ![l] = IF b_todo'[l] = <<>> THEN "idle" ELSE "todo"]
  /\ UNCHANGED <<session, auto_mode, b_auto>>
  /\ UNCHANGED notWizardVars

\* A click on a shot's approve or reject button: _approve_shot, _reject_shot.
Decide(i, status) ==
  /\ buttons[i]
  /\ session' = [session EXCEPT ![i].status = status]
  /\ project_json' = session'
  /\ buttons' = ShowAll(session')
  /\ next_btn' = AllApproved(session')
  /\ UNCHANGED <<auto_mode, b_pc, b_shots, b_todo, b_auto>>
  /\ UNCHANGED notWizardVars
ApproveShot(i) == Decide(i, STATUS_APPROVED)
RejectShot(i) == Decide(i, STATUS_REJECTED)

\* A click on sb_step3_next: _enter_step4 saves the session state.
EnterStep4 ==
  /\ next_btn
  /\ project_json' = session
  /\ UNCHANGED <<session, buttons, next_btn, auto_mode, b_pc, b_shots, b_todo,
                 b_auto>>
  /\ UNCHANGED notWizardVars

\* _export_videos up to its first yield; sb_state is among its outputs.
StartExport(l) ==
  /\ l \in ExportListeners
  /\ b_pc[l] = "idle"
  /\ b_shots' = [b_shots EXCEPT ![l] = session]
  /\ b_todo' = [b_todo EXCEPT ![l] = ToRender(session, "video_status", 1)]
  /\ b_pc' = [b_pc EXCEPT ![l] = IF b_todo'[l] = <<>> THEN "idle" ELSE "todo"]
  /\ UNCHANGED <<session, project_json, buttons, next_btn, auto_mode, b_auto>>
  /\ UNCHANGED notWizardVars

BeginVideo(l) ==
  /\ l \in ExportListeners
  /\ b_pc[l] = "todo"
  /\ LET i == Head(b_todo[l])
         shots == [b_shots[l] EXCEPT ![i].video_status = STATUS_RENDERING]
     IN  /\ b_shots' = [b_shots EXCEPT ![l] = shots]
         /\ session' = shots
  /\ b_pc' = [b_pc EXCEPT ![l] = "rendering"]
  /\ UNCHANGED <<project_json, buttons, next_btn, auto_mode, b_todo, b_auto>>
  /\ UNCHANGED notWizardVars

EndVideo(l) ==
  /\ l \in ExportListeners
  /\ b_pc[l] = "rendering"
  /\ \E found \in BOOLEAN :
       LET i == Head(b_todo[l])
           shots ==
             IF found
               THEN [b_shots[l] EXCEPT ![i].video_path = TRUE,
                                       ![i].video_status = STATUS_APPROVED]
               ELSE [b_shots[l] EXCEPT ![i].video_status = STATUS_PENDING]
       IN  /\ b_shots' = [b_shots EXCEPT ![l] = shots]
           /\ project_json' = shots
           /\ session' = shots
  /\ b_todo' = [b_todo EXCEPT ![l] = Tail(b_todo[l])]
  /\ b_pc' = [b_pc EXCEPT ![l] = IF b_todo'[l] = <<>> THEN "idle" ELSE "todo"]
  /\ UNCHANGED <<buttons, next_btn, auto_mode, b_auto>>
  /\ UNCHANGED notWizardVars

NextImages ==
  \/ \E l \in GenListeners : StartImages(l) \/ BeginImage(l) \/ EndImage(l)
  \/ \E i \in ShotIds : ApproveShot(i) \/ RejectShot(i)
  \/ EnterStep4
NextVideos ==
  \E l \in ExportListeners : StartExport(l) \/ BeginVideo(l) \/ EndVideo(l)

\* ------------------------------------------- get_guide, called on its own
\* (src/prompt_guides.py)

\* guide.model_name
ModelName(guide) ==
  CASE guide = "WAN_GUIDE" -> "Wan 2.1 / 2.2"
    [] guide = "LTX2_GUIDE" -> "LTX-2"
    [] guide = "HUNYUAN_GUIDE" -> "HunyuanVideo"
    [] guide = "FLUX2_GUIDE" -> "FLUX.2"
    [] guide = "FLUX1_GUIDE" -> "Flux.1"

\* format_guide_for_system_prompt: "" without a guide, else the section that
\* opens with the guide's model name and closes with the end marker
FormatGuideForSystemPrompt(id) ==
  LET guide == GetGuide(id)
  IN  IF guide = NoGuide THEN <<>>
      ELSE <<"=== MODEL-SPECIFIC PROMPTING GUIDE (", ModelName(guide), ") ===",
             "=== END MODEL GUIDE ===">>

GuideKeys == {MODEL_GUIDES[i].key : i \in 1..Len(MODEL_GUIDES)}

\* Model ids: none, an unregistered one, every registered key, every key with
\* a suffix, every key behind another token, every key cut short.
GuideIds ==
  {<<>>, <<"sdxl">>} \cup GuideKeys
    \cup {k \o <<"_custom">> : k \in GuideKeys}
    \cup {<<"my_">> \o k : k \in GuideKeys}
    \cup UNION {{SubSeq(k, 1, n) : n \in 1..(Len(k) - 1)} : k \in GuideKeys}

GuideParked ==
  /\ gg_id = <<>> /\ gg_guide = NoGuide /\ gg_text = <<>> /\ gg_pc = "idle"

InitGuide ==
  /\ gg_id \in GuideIds
  /\ gg_guide = NoGuide /\ gg_text = <<>> /\ gg_pc = "start"

\* get_guide(model_id)
GetGuideCall ==
  /\ gg_pc = "start"
  /\ gg_guide' = GetGuide(gg_id)
  /\ gg_pc' = "guide"
  /\ UNCHANGED <<gg_id, gg_text>>
  /\ UNCHANGED notGuideVars

\* format_guide_for_system_prompt(model_id)
FormatCall ==
  /\ gg_pc = "guide"
  /\ gg_text' = FormatGuideForSystemPrompt(gg_id)
  /\ gg_pc' = "done"
  /\ UNCHANGED <<gg_id, gg_guide>>
  /\ UNCHANGED notGuideVars

NextGuide == GetGuideCall \/ FormatCall

\* --------------------------------- ensure_ollama, step 3 (lines 243-253)
\* (src/ollama.py)  The step of Model2, Pulling, Pull and Ready for one thread,
\* keeping the listing the service answered with.

\* The status ensure_ollama holds when it reaches line 244.
StatusBeforePull == {"checking", "starting"}

PullParked ==
  /\ hm_models = <<>> /\ hm_response = "" /\ hm_status = ""
  /\ hm_pulls = 0 /\ hm_pc = "idle"

InitPull ==
  /\ hm_models \in InstalledLists
  /\ hm_response = ""
  /\ hm_status \in StatusBeforePull
  /\ hm_pulls = 0
  /\ hm_pc = "model"

\* lines 244-245: `if not _has_any_model(): _set_status("pulling")`;
\* _has_any_model() is detect_model() is not None
CheckModel ==
  /\ hm_pc = "model"
  /\ \E response \in Responses :
       /\ hm_response' = response
       /\ IF response = "ok" /\ DetectModel(hm_models) # None
          THEN hm_pc' = "ready" /\ UNCHANGED hm_status
          ELSE hm_pc' = "pull" /\ hm_status' = "pulling"
  /\ UNCHANGED <<hm_models, hm_pulls>>
  /\ UNCHANGED notPullVars

\* lines 246-249: _pull_model(ollama_path, DEFAULT_MODEL) exits 0, or fails,
\* times out or raises
PullModel ==
  /\ hm_pc = "pull"
  /\ hm_pulls' = hm_pulls + 1
  /\ \E ok \in BOOLEAN :
       IF ok
       THEN hm_pc' = "ready" /\ UNCHANGED hm_status
       ELSE hm_pc' = "done" /\ hm_status' = "failed:pull"
  /\ UNCHANGED <<hm_models, hm_response>>
  /\ UNCHANGED notPullVars

\* lines 251-254
SetReady ==
  /\ hm_pc = "ready"
  /\ hm_status' = "ready"
  /\ hm_pc' = "done"
  /\ UNCHANGED <<hm_models, hm_response, hm_pulls>>
  /\ UNCHANGED notPullVars

NextPull == CheckModel \/ PullModel \/ SetReady

\* ------------------------- the shot operations, each applied to any state
\* (src/plugin.py)  The handlers take the state as an argument; here each is
\* applied once to a state with any statuses in both phases.

\* A shot with the given statuses; it holds an image or a video once that
\* phase has produced one.
Produced == {STATUS_READY, STATUS_APPROVED, STATUS_REJECTED}
Statuses ==
  {STATUS_PENDING, STATUS_RENDERING, STATUS_READY, STATUS_APPROVED,
   STATUS_REJECTED}
AnyShot ==
  {ShotOf(s, s \in Produced, v, v \in Produced) : s \in Statuses, v \in Statuses}

\* shots[shot_index][field] = status
WithStatus(shots, i, field, status) == [shots EXCEPT ![i][field] = status]

\* shots[shot_index]["video_status"] = status written to "status" instead
WithVideoStatusAsStatus(shots, i, status) ==
  [shots EXCEPT ![i].status = status]

\* _approve_video_shot, _reject_video_shot: shots[shot_index]["video_status"]
WithVideoStatus(shots, i, status) == WithStatus(shots, i, "video_status", status)

\* One pass of the loop of _queue_image_renders over shot i, from the shot
\* set to rendering to its result.
ImagePass(shots, i, found, is_auto) ==
  IF found
    THEN [shots EXCEPT ![i].ref_image_path = TRUE,
                       ![i].status = RenderedStatus(is_auto)]
    ELSE [shots EXCEPT ![i].status = STATUS_PENDING]

\* One pass of the loop of _export_videos over shot i.
VideoPass(shots, i, found) ==
  IF found
    THEN [shots EXCEPT ![i].video_path = TRUE,
                       ![i].video_status = STATUS_APPROVED]
    ELSE [shots EXCEPT ![i].video_status = STATUS_PENDING]

OpParked ==
  /\ op_shots = FreshShots /\ op_name = "" /\ op_shot = 0 /\ op_pc = "idle"

InitOp ==
  /\ op_shots \in [ShotIds -> AnyShot]
  /\ op_name = "" /\ op_shot = 0 /\ op_pc = "start"

Applied(name, i, shots) ==
  /\ op_pc = "start"
  /\ op_shots' = shots
  /\ op_name' = name
  /\ op_shot' = i
  /\ op_pc' = "done"
  /\ UNCHANGED notOpVars

\* _approve_shot(sb_state, i)
OpApproveShot ==
  \E i \in ShotIds :
    Applied("_approve_shot", i, WithStatus(op_shots, i, "status", STATUS_APPROVED))

\* _reject_shot(sb_state, i); the new seed is not part of a shot here
OpRejectShot ==
  \E i \in ShotIds :
    Applied("_reject_shot", i, WithStatus(op_shots, i, "status", STATUS_REJECTED))

\* _approve_video_shot(sb_state, i)
OpApproveVideoShot ==
  \E i \in ShotIds :
    Applied("_approve_video_shot", i,
            WithVideoStatus(op_shots, i, STATUS_APPROVED))

\* _reject_video_shot(sb_state, i)
OpRejectVideoShot ==
  \E i \in ShotIds :
    Applied("_reject_video_shot", i,
            WithVideoStatus(op_shots, i, STATUS_REJECTED))

\* _queue_image_renders rendering a shot of its to_render
OpImagePass ==
  \E i \in ShotIds, found \in BOOLEAN, is_auto \in BOOLEAN :
    /\ \E k \in DOMAIN ToRender(op_shots, "status", 1) :
         ToRender(op_shots, "status", 1)[k] = i
    /\ Applied("_queue_image_renders", i, ImagePass(op_shots, i, found, is_auto))

\* _export_videos rendering a shot of its to_render
OpVideoPass ==
  \E i \in ShotIds, found \in BOOLEAN :
    /\ \E k \in DOMAIN ToRender(op_shots, "video_status", 1) :
         ToRender(op_shots, "video_status", 1)[k] = i
    /\ Applied("_export_videos", i, VideoPass(op_shots, i, found))

NextOp ==
  \/ OpApproveShot \/ OpRejectShot \/ OpApproveVideoShot \/ OpRejectVideoShot
  \/ OpImagePass \/ OpVideoPass

\* ------------------------------------------------------ build_video_params
\* (src/state.py)  A dict is its set of keys and the value under each key.

ParamKeys ==
  {"model_type", "base_model_type", "prompt", "video_length", "resolution",
   "seed", "image_start", "image_prompt_type", "num_inference_steps"}

DictOf(keys, val) == [keys |-> keys, val |-> val]

\* {**under, **over} with the entries of `under` winning
MergedUnder(under, over) ==
  DictOf(under.keys \cup over.keys,
         [k \in ParamKeys |->
            IF k \in under.keys THEN under.val[k] ELSE over.val[k]])

\* {**under, **over}: the entries of `over` replace those of `under`
Merged(under, over) ==
  DictOf(under.keys \cup over.keys,
         [k \in ParamKeys |->
            IF k \in over.keys THEN over.val[k] ELSE under.val[k]])

\* VIBE_RESOLUTION.get(vibe, "832x480")
VibeToResolution(vibe) ==
  CASE vibe = "cinematic" -> "832x480"
    [] vibe = "vertical" -> "480x832"
    [] vibe = "square" -> "624x624"
    [] OTHER -> "832x480"

\* model_id.lower().startswith("ltx"), on the tokens model ids are cut into
LowerId(id) == [k \in DOMAIN id |-> IF id[k] = "LTX" THEN "ltx" ELSE id[k]]
IsLtxModel(id) == StartsWith(LowerId(id), <<"ltx">>)

\* The defaults of a model: none, or a full set naming every key
\* build_video_params writes.
BlankVal ==
  [k \in ParamKeys |->
     CASE k \in {"model_type", "base_model_type"} -> <<>>
       [] k \in {"video_length", "seed", "num_inference_steps"} -> 0
       [] OTHER -> ""]
NoDefaults == DictOf({}, BlankVal)
FullDefaults ==
  DictOf(ParamKeys,
         [k \in ParamKeys |->
            CASE k \in {"model_type", "base_model_type"} -> <<"default">>
              [] k = "prompt" -> "default prompt"
              [] k = "video_length" -> 81
              [] k = "resolution" -> "1280x720"
              [] k = "seed" -> 42
              [] k = "image_start" -> "default.png"
              [] k = "image_prompt_type" -> ""
              [] OTHER -> 30])

\* The keys build_video_params always writes, and those of the reference.
Written(shot, id, quarters, vibe) ==
  DictOf({"model_type", "base_model_type", "prompt", "video_length",
          "resolution", "seed"},
         [BlankVal EXCEPT
            !["model_type"] = id,
            !["base_model_type"] = id,
            !["prompt"] = IF shot.video_prompt # "" THEN shot.video_prompt
                          ELSE shot.beat,
            !["video_length"] =
               DurationToFrames(quarters, 24, IsLtxModel(id)),
            !["resolution"] = VibeToResolution(vibe),
            !["seed"] = IF shot.seed # -1 THEN shot.seed ELSE -1])
Reference(shot) ==
  DictOf({"image_start", "image_prompt_type"},
         [BlankVal EXCEPT !["image_start"] = shot.ref_image_path,
                          !["image_prompt_type"] = "S"])

\* build_video_params(shot, id, shot_duration, vibe, defaults)
BuildVideoParams(shot, id, quarters, vibe, defaults, exists) ==
  LET params == Merged(defaults, Written(shot, id, quarters, vibe))
  IN  IF shot.ref_image_path # "" /\ exists
        THEN Merged(params, Reference(shot))
        ELSE params

\* The shots handed in: with or without video_prompt and beat, seed -1 or a
\* fixed one, ref_image_path None ("") or a path.
ParamShots ==
  [video_prompt : {"", "Slow dolly in on a harbor."},
   beat : {"", "A harbor at dawn."},
   seed : {-1, 7},
   ref_image_path : {"", "images/shot.png"}]

ParamsParked ==
  /\ bv_shot = [video_prompt |-> "", beat |-> "", seed |-> -1,
                ref_image_path |-> ""]
  /\ bv_model = <<>> /\ bv_quarters = 0 /\ bv_vibe = ""
  /\ bv_defaults = NoDefaults /\ bv_exists = FALSE
  /\ bv_params = NoDefaults /\ bv_pc = "idle"

InitParams ==
  /\ bv_shot \in ParamShots
  /\ bv_model \in {<<"t2v">>, <<"ltx", "2">>, <<"LTX", "_custom">>}
  /\ bv_quarters \in {3, 20}
  /\ bv_vibe \in {"cinematic", "vertical", "dreamy"}
  /\ bv_defaults \in {NoDefaults, FullDefaults}
  /\ bv_exists \in BOOLEAN
  /\ bv_params = NoDefaults /\ bv_pc = "called"

BuildCall ==
  /\ bv_pc = "called"
  /\ bv_params' = BuildVideoParams(bv_shot, bv_model, bv_quarters, bv_vibe,
                                   bv_defaults, bv_exists)
  /\ bv_pc' = "done"
  /\ UNCHANGED <<bv_shot, bv_model, bv_quarters, bv_vibe, bv_defaults,
                 bv_exists>>
  /\ UNCHANGED notParamsVars

NextParams == BuildCall

\* ------------------------------------------------------ specifications

LifecycleParked == InitLifecycle /\ platform = "linux"

Init ==
  /\ InitLifecycle /\ PackParked /\ SingleParked /\ DetectParked
  /\ StoreParked /\ CreateParked
  /\ CopyParked
  /\ FramesParked
  /\ WizardParked
  /\ GuideParked
  /\ PullParked
  /\ OpParked
  /\ ParamsParked
Next == NextLifecycle
Spec == Init /\ [][Next]_vars

InitPackSpec ==
  /\ LifecycleParked /\ InitPack /\ SingleParked /\ DetectParked
  /\ StoreParked /\ CreateParked
  /\ CopyParked
  /\ FramesParked
  /\ WizardParked
  /\ GuideParked
  /\ PullParked
  /\ OpParked
  /\ ParamsParked
SpecPack == InitPackSpec /\ [][NextPack]_vars

\* Direct ensure_ollama calls interleaved with get_model_name calls.
NextCache ==
  \/ \E t \in Callers :
       \/ CallEnsure(t) \/ Acquire(t) \/ FastOnline(t) \/ FastModel(t)
       \/ Checking(t) \/ Find(t) \/ Downloading(t) \/ Download(t)
       \/ Installing(t) \/ Install(t) \/ Refind(t) \/ Online2(t)
       \/ Starting(t) \/ Start(t) \/ Model2(t) \/ Pulling(t) \/ Pull(t)
       \/ Ready(t) \/ SetDone(t) \/ ClearCache(t) \/ Return(t)
  \/ LookupModel
SpecCache == Init /\ [][NextCache]_vars

InitSingleSpec ==
  /\ LifecycleParked /\ PackParked /\ InitSingle /\ DetectParked
  /\ StoreParked /\ CreateParked
  /\ CopyParked
  /\ FramesParked
  /\ WizardParked
  /\ GuideParked
  /\ PullParked
  /\ OpParked
  /\ ParamsParked

InitDetectSpec ==
  /\ LifecycleParked /\ PackParked /\ SingleParked /\ InitDetect
  /\ StoreParked /\ CreateParked
  /\ CopyParked
  /\ FramesParked
  /\ WizardParked
  /\ GuideParked
  /\ PullParked
  /\ OpParked
  /\ ParamsParked
SpecDetect == InitDetectSpec /\ [][NextDetect]_vars
SpecSingle == InitSingleSpec /\ [][NextSingle]_vars

InitStoreSpec ==
  /\ LifecycleParked /\ PackParked /\ SingleParked /\ DetectParked
  /\ InitStore /\ CreateParked
  /\ CopyParked
  /\ FramesParked
  /\ WizardParked
  /\ GuideParked
  /\ PullParked
  /\ OpParked
  /\ ParamsParked
SpecStore == InitStoreSpec /\ [][NextStore]_vars

InitCreateSpec ==
  /\ LifecycleParked /\ PackParked /\ SingleParked /\ DetectParked
  /\ StoreParked /\ InitCreate
  /\ CopyParked
  /\ FramesParked
  /\ WizardParked
  /\ GuideParked
  /\ PullParked
  /\ OpParked
  /\ ParamsParked
SpecCreate == InitCreateSpec /\ [][NextCreate]_vars

InitCopySpec ==
  /\ LifecycleParked /\ PackParked /\ SingleParked /\ DetectParked
  /\ StoreParked /\ CreateParked
  /\ InitCopy
  /\ FramesParked
  /\ WizardParked
  /\ GuideParked
  /\ PullParked
  /\ OpParked
  /\ ParamsParked
SpecCopy == InitCopySpec /\ [][NextCopy]_vars

InitFramesSpec ==
  /\ LifecycleParked /\ PackParked /\ SingleParked /\ DetectParked
  /\ StoreParked /\ CreateParked
  /\ CopyParked
  /\ InitFrames
  /\ WizardParked
  /\ GuideParked
  /\ PullParked
  /\ OpParked
  /\ ParamsParked
SpecFrames == InitFramesSpec /\ [][NextFrames]_vars

InitImagesSpec ==
  /\ LifecycleParked /\ PackParked /\ SingleParked /\ DetectParked
  /\ StoreParked /\ CreateParked
  /\ CopyParked
  /\ FramesParked
  /\ InitImages
  /\ GuideParked
  /\ PullParked
  /\ OpParked
  /\ ParamsParked
SpecImages == InitImagesSpec /\ [][NextImages]_vars

InitVideosSpec ==
  /\ LifecycleParked /\ PackParked /\ SingleParked /\ DetectParked
  /\ StoreParked /\ CreateParked
  /\ CopyParked
  /\ FramesParked
  /\ InitVideos
  /\ GuideParked
  /\ PullParked
  /\ OpParked
  /\ ParamsParked
SpecVideos == InitVideosSpec /\ [][NextVideos]_vars

InitGuideSpec ==
  /\ LifecycleParked /\ PackParked /\ SingleParked /\ DetectParked
  /\ StoreParked /\ CreateParked
  /\ CopyParked
  /\ FramesParked
  /\ WizardParked
  /\ InitGuide
  /\ PullParked
  /\ OpParked
  /\ ParamsParked
SpecGuide == InitGuideSpec /\ [][NextGuide]_vars

InitPullSpec ==
  /\ LifecycleParked /\ PackParked /\ SingleParked /\ DetectParked
  /\ StoreParked /\ CreateParked
  /\ CopyParked
  /\ FramesParked
  /\ WizardParked
  /\ GuideParked
  /\ InitPull
  /\ OpParked
  /\ ParamsParked
SpecPull == InitPullSpec /\ [][NextPull]_vars

InitOpSpec ==
  /\ LifecycleParked /\ PackParked /\ SingleParked /\ DetectParked
  /\ StoreParked /\ CreateParked
  /\ CopyParked
  /\ FramesParked
  /\ WizardParked
  /\ GuideParked
  /\ PullParked
  /\ InitOp
  /\ ParamsParked
SpecOp == InitOpSpec /\ [][NextOp]_vars

InitParamsSpec ==
  /\ LifecycleParked /\ PackParked /\ SingleParked /\ DetectParked
  /\ StoreParked /\ CreateParked
  /\ CopyParked
  /\ FramesParked
  /\ WizardParked
  /\ GuideParked
  /\ PullParked
  /\ OpParked
  /\ InitParams
SpecParams == InitParamsSpec /\ [][NextParams]_vars


\* =================================================================== claims

StatusValues ==
  {"", "checking", "downloading", "installing", "starting", "pulling", "ready"}
    \cup FailedStatuses

StepStatuses == {"checking", "downloading", "installing", "starting", "pulling"}

\* idle -> checking -> (downloading -> installing) -> starting -> pulling -> ready,
\* any step -> failed:<reason>, and failed:<reason> -> checking for a new attempt.
ClaimedEdges ==
  {<<"", "checking">>, <<"checking", "downloading">>,
   <<"downloading", "installing">>, <<"checking", "starting">>,
   <<"installing", "starting">>, <<"starting", "pulling">>,
   <<"pulling", "ready">>}
    \cup (StepStatuses \X FailedStatuses)
    \cup (FailedStatuses \X {"checking"})

\* The edges ensure_ollama takes.
AttemptStarts == {"", "ready", "downloading"} \cup FailedStatuses
CodeEdges ==
  (AttemptStarts \X {"checking", "ready"})
    \cup {<<"checking", "downloading">>, <<"downloading", "installing">>}
    \cup ({"checking", "installing"} \X {"starting", "pulling", "ready"})
    \cup {<<"starting", "pulling">>, <<"starting", "ready">>,
          <<"pulling", "ready">>}
    \cup {<<"downloading", "failed:download">>,
          <<"installing", "failed:install">>,
          <<"installing", "failed:notfound">>,
          <<"starting", "failed:start">>, <<"pulling", "failed:pull">>}

\* C7 as stated: every change of the setup status follows idle -> checking ->
\* (downloading -> installing) -> starting -> pulling -> ready or goes from a
\* step to failed:<reason>; ready is entered only from pulling; the status is
\* always one of the enumerated values.
C7_ClaimedOrder ==
  [][/\ setup_status' \in StatusValues
     /\ setup_status' # setup_status
          => <<setup_status, setup_status'>> \in ClaimedEdges]_vars

\* C7 amended: every change of the setup status starts an attempt (from idle,
\* ready, failed:<reason> or the status an aborted attempt left, to checking or
\* straight to ready), or follows checking -> downloading -> installing, or goes
\* from checking or installing to starting, pulling or ready, from starting to
\* pulling or ready, from pulling to ready, or from a step to the failed:<reason>
\* of that step; the status is always one of the enumerated values.
C7_StatusOrder ==
  [][/\ setup_status' \in StatusValues
     /\ setup_status' # setup_status
          => <<setup_status, setup_status'>> \in CodeEdges]_vars

\* ready written on the fast path, with no pulling before it
C7_Witness ==
  \E t \in Threads : pc[t] = "fast_done" /\ setup_status = "ready"

\* C8: at most one ensure_ollama invocation is inside its provisioning steps
\* (the block under _setup_lock) at any time.
C8_MutualExclusion ==
  Cardinality({t \in Threads : pc[t] \in CriticalPcs}) <= 1

\* one invocation is pulling while another waits for the lock
C8_Witness ==
  \E t, u \in Threads : t # u /\ pc[t] = "pull" /\ pc[u] = "lock"

\* C9: an ensure_ollama invocation that began while another was in the pulling
\* stage never executes a model pull of its own.
C9_NoSecondPull ==
  \A t \in Threads : pc[t] = "pull" => ~calledDuringPull[t]

\* C10: at most one background provisioning worker exists at any time.
C10_OneWorker ==
  Cardinality({w \in Workers : pc[w] \notin {"unstarted", "dead"}}) <= 1

\* C11: once the setup status is ready it stays ready for the rest of the
\* process: no later ensure_ollama or ensure_ollama_background call changes it.
C11_ReadyPersists == [][setup_status = "ready" => setup_status' = "ready"]_vars

\* C12 as stated: a failed:<reason> status blocks neither guard of
\* ensure_ollama_background, and the status written over it is checking.
C12_FailedToChecking ==
  /\ [](setup_status \in FailedStatuses => ~AlreadyReady /\ ~InProgress)
  /\ [][(setup_status \in FailedStatuses /\ setup_status' # setup_status)
          => setup_status' = "checking"]_vars

\* C12 amended: a failed:<reason> status blocks neither guard of
\* ensure_ollama_background, so a worker is spawned, and ensure_ollama runs; the
\* status the new attempt writes over it is checking, or ready when the
\* service already answers with a usable model.
C12_FailedRestarts ==
  /\ [](setup_status \in FailedStatuses => ~AlreadyReady /\ ~InProgress)
  /\ [][(setup_status \in FailedStatuses /\ setup_status' # setup_status)
          => setup_status' \in {"checking", "ready"}]_vars

\* a worker spawned from a failed status holds the lock and is about to write
\* checking over it
C12_Witness ==
  \E w \in Workers :
    /\ setup_status \in FailedStatuses
    /\ setup_done
    /\ setup_lock = w
    /\ pc[w] = "set_checking"

SettledStatuses == {"ready"} \cup FailedStatuses

\* C13: every ensure_ollama invocation ends without raising; when the lock is
\* released the status is ready or failed:<reason> (never a step status), it
\* equals the status of the returned record, and model_ready is true exactly
\* when it is ready.
C13_EndsSettled ==
  /\ (setup_lock = 0 /\ setup_status # "") => setup_status \in SettledStatuses
  /\ \A t \in Threads :
       pc[t] = "return" =>
          /\ ret[t].status = setup_status
          /\ ret[t].status \in SettledStatuses
          /\ ret[t].model_ready <=> (ret[t].status = "ready")

\* C14: whenever ensure_ollama returns with status ready, by the fast path or
\* after install/start/pull, the cached model selection is empty.
C14_ReadyClearsCache ==
  \A t \in Threads :
    (pc[t] = "return" /\ ret[t].status = "ready") => cached_model = None

\* ---- detect_model ----

\* The part of a preferred name before its first colon.
PreColon(pref) ==
  SubSeq(pref, 1,
         (CHOOSE i \in 1..Len(pref) :
            pref[i] = ":" /\ \A j \in 1..(i - 1) : pref[j] # ":") - 1)

IsMatch(m, pref) ==
  \/ m = pref
  \/ m = pref \o <<":", "latest">>
  \/ (Len(m) >= Len(PreColon(pref))
       /\ \A i \in 1..Len(PreColon(pref)) : m[i] = PreColon(pref)[i])

InstalledMatch(pref) ==
  \E i \in 1..Len(dm_models) : IsMatch(dm_models[i], pref)

ExamplePreferences ==
  << <<"qwen2.5", ":", "3b">>, <<"llama3.2", ":", "3b">>,
     <<"llama3.2", ":", "1b">>, <<"mistral", ":", "7b">> >>

\* C15: on a listing, detect_model returns an installed model that matches the
\* earliest preference having any match, and nothing when no installed model
\* matches any preference or nothing is installed; with llama3.2:1b and
\* mistral:7b installed it returns llama3.2:1b.
C15_EarliestPreference ==
  (dm_pc = "done" /\ dm_response = "ok") =>
     /\ dm_result = None
          <=> ~\E k \in 1..Len(PREFERRED_MODELS) :
                 InstalledMatch(PREFERRED_MODELS[k])
     /\ dm_result # None =>
          \E k \in 1..Len(PREFERRED_MODELS) :
            /\ \E i \in 1..Len(dm_models) : dm_models[i] = dm_result
            /\ IsMatch(dm_result, PREFERRED_MODELS[k])
            /\ \A j \in 1..(k - 1) : ~InstalledMatch(PREFERRED_MODELS[j])
     /\ dm_models = <<LlamaModel, MistralModel>> =>
          /\ dm_result = LlamaModel
          /\ DetectIn(dm_models, ExamplePreferences) = LlamaModel

C15_Witness ==
  /\ dm_pc = "done" /\ dm_response = "ok"
  /\ dm_models = <<MistralModel, CoderModel>>
  /\ dm_result = CoderModel

\* C16: when detection finds no usable model, get_model_name supplies no
\* default: every generation request names a model that detection returned
\* (the cache starts empty here, so a detected model is the cached one).
C16_NoAssumedDefault == pk_requests > 0 => pk_model = cached_model

\* ---- pack ----

PackReturned == pk_pc = "done" /\ ~pk_raised

\* The count the caller is entitled to: shot_count held to 2..20.
RequestedCount ==
  IF shot_count < 2 THEN 2 ELSE IF shot_count > 20 THEN 20 ELSE shot_count

\* C1: pack returns exactly shot_count shot records for shot_count in 2..20,
\* exactly 2 below that range and exactly 20 above it, online and offline.
C1_ExactCount == PackReturned => Len(pk_result) = RequestedCount

\* The subject the beats are filled with: the stripped concept, or "the hero".
SubjectOf(c) == IF Strip(c) = <<>> THEN <<"the hero">> ELSE Strip(c)

IsTemplatePrefix(shots, c) ==
  \E k \in 1..Len(TEMPLATES) :
    /\ Len(shots) <= Len(TEMPLATES[k].beats)
    /\ \A i \in 1..Len(shots) :
         shots[i].prompt = ReplaceSubject(TEMPLATES[k].beats[i], SubjectOf(c))

PromptsAreBeat(shots) ==
  \A i \in 1..Len(shots) :
    /\ shots[i].obj
    /\ shots[i].imagePrompt = shots[i].prompt
    /\ shots[i].videoPrompt = shots[i].prompt

\* C2: when the liveness probe reports the service unreachable, pack sends no
\* generation request and returns shots that are an in-order prefix of one
\* template's beats, each with imagePrompt = videoPrompt = prompt.
C2_OfflineTemplates ==
  (pk_pc = "done" /\ ~pk_online) =>
     /\ pk_requests = 0
     /\ ~pk_raised
     /\ IsTemplatePrefix(pk_result, concept)
     /\ PromptsAreBeat(pk_result)

C2_Witness ==
  /\ pk_pc = "done" /\ ~pk_online
  /\ Len(pk_result) = 10
  /\ pk_template = "horror"
  /\ Strip(concept) # <<>>

\* The generation reply gave an array of exactly the requested number of
\* objects, each with a prompt and a shot_label.
WellShaped(gen) ==
  /\ gen.kind = "array"
  /\ Len(gen.items) = RequestedCount
  /\ \A i \in 1..Len(gen.items) :
       /\ gen.items[i].obj
       /\ gen.items[i].prompt # Absent
       /\ gen.items[i].shot_label # Absent

\* C3: when the service is reachable but the generation call errors or its
\* reply is not an array of exactly shot_count objects with prompt and label,
\* pack returns the offline template shots.
C3_FallsBackOnBadShape ==
  (PackReturned /\ pk_online /\ ~WellShaped(pk_gen)) =>
     /\ pk_template # ""
     /\ IsTemplatePrefix(pk_result, concept)

\* C4: pack never raises to its caller, whatever the service replies and
\* whatever image and video model ids are given.
C4_NeverRaises == pk_pc = "done" => ~pk_raised

\* The refinement request was sent and failed, gave no array, or gave an array
\* whose length differs from the number of shots.
RefineMismatch ==
  /\ pk_refined.called
  /\ \/ pk_ref.kind \in {"error", "noarray"}
     \/ pk_ref.kind = "array" /\ Len(pk_ref.items) # Len(pk_gen.items)

\* C5: when the refinement reply has a different length than the shots, holds
\* no array, or the call errors, _refine_prompts returns nothing and pack
\* returns every shot with imagePrompt = videoPrompt = its unrefined prompt.
C5_MismatchKeepsPrompts ==
  (pk_pc = "done" /\ RefineMismatch) =>
     /\ ~pk_refined.ok
     /\ ~pk_raised
     /\ Len(pk_result) = Len(pk_gen.items)
     /\ \A i \in 1..Len(pk_result) :
          /\ pk_result[i].prompt = pk_gen.items[i].prompt
          /\ pk_result[i].imagePrompt = pk_gen.items[i].prompt
          /\ pk_result[i].videoPrompt = pk_gen.items[i].prompt

C5_Witness ==
  /\ pk_pc = "done" /\ pk_refined.called
  /\ pk_ref.kind = "array"
  /\ Len(pk_ref.items) > Len(pk_gen.items)
  /\ \A i \in 1..Len(pk_ref.items) : pk_ref.items[i].imagePrompt = RefinedImage
  /\ pk_result # <<>>

\* ---- refine_single_prompt ----

SingleReturnsRaw == rs_result = raw_prompt

\* C6: refine_single_prompt returns raw_prompt or the stripped response and
\* never raises; it returns raw_prompt, with no call to the service, when
\* model_id has no guide (on every repetition of the call), and returns
\* raw_prompt when the service is unreachable, when the generation call errors
\* and when the stripped response has 10 characters or fewer.
C6_RawOrStripped ==
  rs_pc = "done" =>
     /\ ~rs_raised
     /\ \/ SingleReturnsRaw
        \/ rs_reply.kind = "text" /\ rs_result = Strip(rs_reply.text)
     /\ ~HasGuideText(model_id) => SingleReturnsRaw /\ rs_calls = 0
     /\ ~rs_online => SingleReturnsRaw /\ rs_reply = NoReply
     /\ rs_reply.kind = "error" => SingleReturnsRaw
     /\ (rs_reply.kind = "text" /\ Len(Strip(rs_reply.text)) <= 10)
          => SingleReturnsRaw

C6_Witness ==
  /\ rs_pc = "done"
  /\ rs_round = 2
  /\ rs_reply.kind = "text"
  /\ Len(rs_reply.text) > 10
  /\ Len(Strip(rs_reply.text)) = 10
  /\ raw_prompt # <<>>
  /\ SingleReturnsRaw

\* ---- save_project, load_project ----
\* load_project reads project.json while the last save_project call has
\* returned after a completed rename.
SavedThenRead ==
  /\ ld_pc = "read" /\ ld_pc' = "done"
  /\ sv_pc = "done" /\ sv_outcome = "saved"

C18_OldOrNew ==
  ld_pc = "done" =>
    IF ld_result.found
      THEN \E c \in ld_candidates :
             c.kind = "complete" /\ ld_result = Loaded(c, ProjDir)
      ELSE Missing \in ld_candidates
C18_Witness ==
  /\ ld_pc = "done" /\ ld_result.found
  /\ sv_pc = "except"
  /\ files[CleanupName].kind = "partial"
  /\ ld_result = Loaded(sv_before, ProjDir)

SaveFailed == sv_pc = "done" /\ sv_outcome = "failed"

\* C19 (as stated): a save_project call in which a step failed returns
\* normally, project.json holds what it held before the call and no
\* project.json.tmp is left.
C19_FailedLeavesNoTemp ==
  SaveFailed => files[JsonName] = sv_before /\ ~Exists(files, CleanupName)

\* C19: a save_project call in which a step failed returns normally and
\* project.json holds what it held before the call; project.json.tmp is left
\* only when removing it failed as well.
C19_FailedLeavesTempOnlyIfStuck ==
  SaveFailed =>
    /\ files[JsonName] = sv_before
    /\ Exists(files, CleanupName) => sv_cleanup = "remove_failed"
C19_Witness ==
  /\ SaveFailed /\ sv_cleanup = "removed"
  /\ Exists(files, JsonName) /\ ~Exists(files, CleanupName)

\* ---- create_project_dir ----
JustReturned == cp_calls > 0 /\ ~cp_raised
LastReturned == cp_returned[Len(cp_returned)]

\* C20: the directories create_project_dir returned are pairwise distinct,
\* none existed before its call, and when <base>/<slug> existed the new
\* directory is <base>/<slug>-i for the smallest i >= 2 whose path did not
\* exist.
C20_DistinctSmallestSuffix ==
  /\ \A i, j \in DOMAIN cp_returned :
       i # j => cp_returned[i] # cp_returned[j]
  /\ JustReturned =>
       /\ ~DirExists(cp_existed, LastReturned)
       /\ IF DirExists(cp_existed, Slugify(cp_concept))
            THEN \E i \in 2..(MaxCreates + 3) :
                   /\ LastReturned = Suffixed(Slugify(cp_concept), i)
                   /\ \A j \in 2..(i - 1) :
                        DirExists(cp_existed, Suffixed(Slugify(cp_concept), j))
            ELSE LastReturned = Slugify(cp_concept)
C20_Witness ==
  /\ JustReturned
  /\ Len(cp_returned) >= 2
  /\ LastReturned = <<"a", "-", "3">>

\* ---- copy_to_project ----
\* C21: every file copy_to_project copied is still there with the content it
\* was copied with, and each copy went to a destination no earlier copy
\* went to.
C21_NeverOverwrites ==
  \A k \in DOMAIN ctp_log :
    /\ ctp_files[ctp_log[k].dest] = ctp_log[k].content
    /\ \A j \in DOMAIN ctp_log : j # k => ctp_log[j].dest # ctp_log[k].dest

\* ---- duration_to_frames ----
\* C22: with is_ltx the frame count is 8n+1 for some n and at least 17;
\* without it the frame count is seconds * fps rounded to a nearest integer,
\* and 1 when that is below 1.
C22_SnappedOrRounded ==
  df_pc = "done" =>
    IF df_is_ltx
      THEN df_result >= 17 /\ (df_result - 1) % 8 = 0
      ELSE \/ /\ df_result >= 1
              /\ 2 * (4 * df_result - df_quarters * df_fps) <= 4
              /\ 2 * (df_quarters * df_fps - 4 * df_result) <= 4
           \/ /\ df_result = 1
              /\ 2 * df_quarters * df_fps <= 4
C22_Witness ==
  /\ df_pc = "done" /\ df_is_ltx
  /\ df_quarters = 4 /\ df_fps = 24
  /\ df_result = 25

\* ---- render batches, approval ----
BatchEdges(is_auto) ==
  {<<STATUS_PENDING, STATUS_RENDERING>>, <<STATUS_RENDERING, STATUS_READY>>,
   <<STATUS_RENDERING, STATUS_PENDING>>, <<STATUS_REJECTED, STATUS_RENDERING>>}
    \cup (IF is_auto THEN {<<STATUS_RENDERING, STATUS_APPROVED>>} ELSE {})
DecisionEdges ==
  {<<STATUS_READY, STATUS_APPROVED>>, <<STATUS_READY, STATUS_REJECTED>>}

\* C23: every change a running image batch makes to a shot's status follows
\* pending->rendering, rendering->ready, rendering->pending,
\* rejected->rendering, or rendering->approved in Auto mode only; every change
\* approve or reject makes to the status of a shot in the session state is
\* ready->approved or ready->rejected, so approved is never left.
C23_ImageEdges ==
  [][\A i \in ShotIds :
       /\ session'[i].status # session[i].status =>
            <<session[i].status, session'[i].status>> \in DecisionEdges
       /\ \A l \in GenListeners :
            (b_pc[l] # "idle" /\ b_shots'[l][i].status # b_shots[l][i].status)
              => <<b_shots[l][i].status, b_shots'[l][i].status>>
                   \in BatchEdges(b_auto[l])]_vars

\* C24: every change a running video batch makes to a shot's video_status
\* follows the edges of the image phase: a rendered video goes
\* rendering->ready, and rendering->approved in Auto mode only; a failed one
\* goes rendering->pending.
C24_VideoEdges ==
  [][\A i \in ShotIds, l \in ExportListeners :
       (/\ b_pc[l] # "idle"
        /\ b_shots'[l][i].video_status # b_shots[l][i].video_status)
         => <<b_shots[l][i].video_status, b_shots'[l][i].video_status>>
              \in BatchEdges(auto_mode = "Auto")]_vars

\* project.json records shot i as ready or approved with its image path.
Recorded(i) ==
  /\ project_json[i].status \in {STATUS_READY, STATUS_APPROVED}
  /\ project_json[i].ref_image_path

\* C25: once project.json records a shot as ready or approved with its image
\* path, a save made by approving or rejecting another shot, or by entering
\* step 4, still records it so.
C25_PersistedResultsKept ==
  [][\A i \in ShotIds :
       (/\ Recorded(i)
        /\ \/ \E j \in ShotIds \ {i} : ApproveShot(j) \/ RejectShot(j)
           \/ EnterStep4)
         => Recorded(i)']_vars

\* C26: at most one render batch of the project is in flight.
C26_OneBatch == Cardinality({l \in Listeners : b_pc[l] # "idle"}) <= 1

\* ---- offline pack of three shots ----

\* `s in b` on token sequences
ContainsText(b, s) ==
  \E k \in 1..(Len(b) - Len(s) + 1) : SubSeq(b, k, k + Len(s) - 1) = s

\* pack(concept, 3, {every genre: 0}) returned by the offline path.
OfflineThree ==
  /\ pk_pc = "done" /\ ~pk_online
  /\ shot_count = 3
  /\ genre_weights = [given |-> TRUE, w |-> NoWeights]

PrefixKeys(id) ==
  {i \in 1..Len(MODEL_GUIDES) : StartsWith(id, MODEL_GUIDES[i].key)}

GuideReturned == gg_pc \in {"guide", "done"}

\* C28: get_guide returns the guide registered under model_id when model_id
\* is a registered key; otherwise the guide registered under the longest
\* registered key that is a prefix of model_id; it returns no guide when
\* model_id is empty or no registered key is a prefix, and
\* format_guide_for_system_prompt then yields empty text.
C28_ExactThenLongestPrefix ==
  /\ GuideReturned =>
       IF gg_id = <<>> THEN gg_guide = NoGuide
       ELSE IF gg_id \in GuideKeys
       THEN \E i \in 1..Len(MODEL_GUIDES) :
              MODEL_GUIDES[i].key = gg_id /\ gg_guide = MODEL_GUIDES[i].guide
       ELSE IF PrefixKeys(gg_id) = {} THEN gg_guide = NoGuide
       ELSE \E i \in PrefixKeys(gg_id) :
              /\ \A j \in PrefixKeys(gg_id) :
                   Len(MODEL_GUIDES[i].key) >= Len(MODEL_GUIDES[j].key)
              /\ gg_guide = MODEL_GUIDES[i].guide
  /\ (gg_pc = "done" /\ gg_guide = NoGuide) => gg_text = <<>>

\* flux2_dev_custom: both flux2_dev and the shorter flux are prefixes, and they
\* are registered under different guides.
C28_Witness ==
  /\ gg_pc = "done"
  /\ gg_id = <<"flux", "2", "_dev", "_custom">>
  /\ gg_guide = "FLUX2_GUIDE"
  /\ gg_text # <<>>

\* ---- writes under the setup lock ----

\* C29: every write to the setup status and every write to the cached
\* best-model selection is performed by a thread that holds the setup lock at
\* that moment: a step that changes either of them is a step of the thread
\* that holds the lock.
C29_WritesUnderLock ==
  [][(cached_model' # cached_model \/ setup_status' # setup_status) =>
        \E t \in Threads : setup_lock = t /\ pc'[t] # pc[t]]_vars

\* ---- the pull of the default model ----

\* ensure_ollama entered the pulling stage or called _pull_model.
PullAttempted == hm_status = "pulling" \/ hm_pulls > 0

\* C30: ensure_ollama enters the pulling stage and pulls the default model
\* only when the service's installed-model list is empty; whenever the
\* service reports at least one installed model, no pull is attempted.
C30_PullOnlyWhenNoneInstalled ==
  (hm_response = "ok" /\ PullAttempted) => hm_models = <<>>

\* ---- batch refinement with one guide ----

\* pack returned the list _refine_prompts built.
RefinementReturned == pk_pc = "done" /\ ~pk_raised /\ pk_refined.ok

\* C31: in a batch refinement where exactly one of the two target models has
\* a registered guide, the field of the target without a guide is the
\* original prompt in every returned shot, whatever the service put there.
C31_NoGuideFieldIsPrompt ==
  RefinementReturned =>
     /\ (~HasGuideText(image_model) /\ HasGuideText(video_model)) =>
          \A i \in 1..Len(pk_result) :
            pk_result[i].imagePrompt = pk_result[i].prompt
     /\ (HasGuideText(image_model) /\ ~HasGuideText(video_model)) =>
          \A i \in 1..Len(pk_result) :
            pk_result[i].videoPrompt = pk_result[i].prompt

\* ---- snapping upward ----

\* max(1, round(seconds * fps)) of the call
RawFrames == Max(1, Round(df_quarters * df_fps, 4))

Listed(models) == {models[i] : i \in DOMAIN models}

\* C33: detect_model picks deterministically: for a given set of installed
\* models its result is the same whatever order the service lists them in.
C33_OrderIndependent ==
  (dm_pc = "done" /\ dm_response = "ok") =>
     \A models \in InstalledLists :
       (Len(models) = Len(dm_models) /\ Listed(models) = Listed(dm_models))
          => DetectModel(models) = dm_result

\* ---- one batch, shot by shot ----

Increasing(todo) ==
  \A a, b \in DOMAIN todo : a < b => todo[a] < todo[b]

RenderingIn(shots) == {i \in ShotIds : shots[i].status = STATUS_RENDERING}

ImageOps == {"_queue_image_renders", "_approve_shot", "_reject_shot"}
VideoOps == {"_export_videos", "_approve_video_shot", "_reject_video_shot"}

\* C35: the image-phase operations leave every shot's video_status (and
\* video) unchanged, the video-phase operations leave every shot's image
\* status (and image) unchanged, and an operation on shot i leaves every
\* other shot as it was.
C35_PhasesIndependent ==
  [][\A j \in ShotIds :
       /\ op_name' \in ImageOps =>
            /\ op_shots'[j].video_status = op_shots[j].video_status
            /\ op_shots'[j].video_path = op_shots[j].video_path
       /\ op_name' \in VideoOps =>
            /\ op_shots'[j].status = op_shots[j].status
            /\ op_shots'[j].ref_image_path = op_shots[j].ref_image_path
       /\ j # op_shot' => op_shots'[j] = op_shots[j]]_vars

\* _reject_video_shot on shot 2 of a project whose images are approved and
\* whose first video is ready.
C35_Witness ==
  /\ op_pc = "done" /\ op_name = "_reject_video_shot" /\ op_shot = 2
  /\ op_shots[2].video_status = STATUS_REJECTED
  /\ op_shots[2].status = STATUS_APPROVED
  /\ op_shots[1].status = STATUS_APPROVED
  /\ op_shots[1].video_status = STATUS_READY

\* ---- genre weights ----

\* pack returned template shots (service unreachable, or no usable reply).
TemplateReturned == pk_pc = "done" /\ pk_template # ""

SomePositive(gw) == gw.given /\ \E g \in Genres : gw.w[g] > 0

\* C36: whenever at least one genre has a positive weight, the selected
\* template belongs to a genre with a positive weight; a genre with weight 0,
\* a negative weight or no entry is selected only when no genre has a
\* positive weight.
C36_PositiveGenresOnly ==
  (TemplateReturned /\ SomePositive(genre_weights)) =>
     genre_weights.w[pk_template] > 0

\* The service is unreachable and scifi, of weight 1 beside horror's 2 and
\* comedy's -1, is selected.
C36_Witness ==
  /\ TemplateReturned /\ ~pk_online
  /\ SomePositive(genre_weights)
  /\ genre_weights.w["comedy"] < 0
  /\ pk_template = "scifi"

\* ---- build_video_params ----

Param(k) == bv_params.val[k]

\* C37: build_video_params returns parameters in which the prompt is the
\* shot's video_prompt when non-empty and otherwise its beat, the seed is the
\* shot's seed (the sentinel -1 included), model, prompt, frame count,
\* resolution and seed are present whatever the caller's defaults name, and
\* the shot's reference image is attached exactly when the shot has a
\* reference path whose file exists at the call.
C37_ParamsFromShot ==
  bv_pc = "done" =>
     /\ {"model_type", "prompt", "video_length", "resolution", "seed"}
          \subseteq bv_params.keys
     /\ Param("prompt") = IF bv_shot.video_prompt # ""
                          THEN bv_shot.video_prompt ELSE bv_shot.beat
     /\ Param("seed") = bv_shot.seed
     /\ Param("model_type") = bv_model
     /\ Param("video_length") =
          DurationToFrames(bv_quarters, 24, IsLtxModel(bv_model))
     /\ Param("resolution") = VibeToResolution(bv_vibe)
     /\ \A k \in bv_defaults.keys \ {"model_type", "base_model_type", "prompt",
                                     "video_length", "resolution", "seed",
                                     "image_start", "image_prompt_type"} :
          k \in bv_params.keys /\ Param(k) = bv_defaults.val[k]
     /\ (bv_shot.ref_image_path # "" /\ bv_exists)
          <=> /\ "image_start" \in bv_params.keys
              /\ Param("image_start") = bv_shot.ref_image_path

\* Full defaults, a shot with only a beat, seed -1 and a reference whose file
\* is gone: the beat is the prompt and the default image stays.
C37_Witness ==
  /\ bv_pc = "done"
  /\ bv_defaults = FullDefaults
  /\ bv_shot.video_prompt = "" /\ bv_shot.beat # ""
  /\ bv_shot.seed = -1
  /\ bv_shot.ref_image_path # "" /\ ~bv_exists
  /\ Param("prompt") = bv_shot.beat
  /\ Param("seed") = -1
  /\ Param("image_start") = "default.png"

\* ---- what project.json records ----

\* C38: project.json never records status rendering for any shot, in either
\* phase.
C38_NoRenderingOnDisk ==
  \A i \in ShotIds :
    /\ project_json[i].status # STATUS_RENDERING
    /\ project_json[i].video_status # STATUS_RENDERING

\* ---- when ready is written ----

\* C39: when an ensure_ollama invocation has just written ready, the latest
\* liveness probe of that invocation (is_online, or the polling inside
\* _start_ollama_server) succeeded, and its latest model check succeeded
\* (detect_model gave a model, or the pull of the default model returned
\* success); so no failed start and no failed pull precedes the write.
C39_ReadyAfterProbeAndModel ==
  \A t \in Threads :
    pc[t] \in {"fast_done", "ready_done"} =>
      /\ setup_status = "ready"
      /\ probe_ok[t]
      /\ model_ok[t]

\* An invocation that went past the fast path has just written ready.
C39_Witness ==
  \E t \in Threads :
    /\ pc[t] = "ready_done" /\ setup_status = "ready"
    /\ probe_ok[t] /\ model_ok[t]

\* ---- the completion event ----

\* C40: whenever _setup_done is set, the setup status is ready or
\* failed:<reason>; it is never set while an attempt is in checking,
\* downloading, installing, starting or pulling.
C40_DoneMeansFinished ==
  setup_done => setup_status \in {"ready"} \cup FailedStatuses

====
